---------------------------- MODULE Spec2Model ----------------------------
(***************************************************************************)
(* Model of the session/batch pipeline of the radiology report site:       *)
(*   - BatchProcessor (lib/batch-processor): processImages, createBatches, *)
(*     processBatchWithRetry, processSingleBatch, generateFinalReport,     *)
(*     reset;                                                              *)
(*   - the /api/process-batch endpoint that processSingleBatch calls;      *)
(*   - the session status endpoint (GET / POST of <sessionId>_status.json).*)
(* Time is not modelled: timestamps are left out of the records, and a     *)
(* delay is the number of milliseconds handed to setTimeout.               *)
(***************************************************************************)
EXTENDS Integers, Sequences, FiniteSets, TLC

(***************************************************************************)
(* Bounds of the model.                                                    *)
(***************************************************************************)
MaxImages == 3          \* small image lists have 0..MaxImages images
MaxBatchSize == 2       \* small batch sizes are 1..MaxBatchSize
MaxRetriesBound == 3    \* options.maxRetries ranges over 0..MaxRetriesBound
MaxConverted == 2       \* counters of a status update range over 0..MaxConverted
MaxFiles == 3           \* small uploads have 0..MaxFiles files
MaxBatchesBuilt == 4    \* createBatches is followed for at most this many batches
MaxSessionBatches == 2  \* a session handed to ReportGenerator has 0..MaxSessionBatches batches
MaxReports == 2         \* generateFullReport is called up to MaxReports times on a session
MaxClock == 3           \* the clock is followed from 0 to MaxClock
MaxLines == 3           \* a generated AI response has 1..MaxLines lines
MaxKeywordLines == 2    \* one made of lines with severity keywords has 1..MaxKeywordLines
MaxOtherBatches == 1    \* severities of up to MaxOtherBatches more batches are combined
MaxFetches == 2         \* status requests of the dashboard page in flight at once

(***************************************************************************)
(* Program constants.                                                      *)
(***************************************************************************)
DefaultBatchSize == 20
DefaultMaxRetries == 3
DefaultRetryDelay == 2000
MaxImagesPerRequest == 20
MaxFilesPerUpload == 200
DicomPrefixLength == 132

SessionId == "session-1"
AnalysisText == "analysis text"

(***************************************************************************)
(* Arithmetic helpers.                                                     *)
(***************************************************************************)
Min(a, b) == IF a < b THEN a ELSE b

Max(a, b) == IF a > b THEN a ELSE b

RECURSIVE Pow2(_)
\* Math.pow(2, attempt) for a non-negative integer attempt
Pow2(k) == IF k <= 0 THEN 1 ELSE 2 * Pow2(k - 1)

RECURSIVE Flatten(_)
\* the lists of a list, concatenated (Array.prototype.flatMap, flat)
Flatten(bs) == IF bs = << >> THEN << >> ELSE Head(bs) \o Flatten(Tail(bs))

\* Math.ceil(n / b) for n >= 0, b >= 1
CeilDiv(n, b) == (n + b - 1) \div b

\* the image list of a call: n distinct image references, in upload order
ImageList(n) == [k \in 1..n |-> k]

\* a relative index of Array.prototype.slice: a negative one counts from the
\* end, and the result is clamped to 0..len
SliceIndex(k, len) ==
  IF k < 0 THEN (IF len + k < 0 THEN 0 ELSE len + k)
  ELSE IF k > len THEN len ELSE k

\* Array.prototype.slice(from, to) on a 0-based array held as a 1-based sequence
Slice(s, from, to) ==
  LET lo == SliceIndex(from, Len(s))
      hi == SliceIndex(to, Len(s))
  IN  IF lo >= hi THEN << >> ELSE [k \in 1..(hi - lo) |-> s[lo + k]]

RECURSIVE CreateBatchesFrom(_, _, _)
CreateBatchesFrom(imgs, size, i) ==
  IF i < Len(imgs)
    THEN << Slice(imgs, i, i + size) >> \o CreateBatchesFrom(imgs, size, i + size)
    ELSE << >>

\* a slicing bug: the end index is taken inclusive-minus-one
CreateBatchesShortSlice(imgs, size) ==
  LET RECURSIVE From(_)
      From(i) == IF i < Len(imgs)
                   THEN << Slice(imgs, i, i + size - 1) >> \o From(i + size)
                   ELSE << >>
  IN  From(0)

\* BatchProcessor.createBatches (and AIClient.createBatches with BATCH_SIZE)
CreateBatches(imgs, size) == CreateBatchesFrom(imgs, size, 0)

(***************************************************************************)
(* State.                                                                  *)
(***************************************************************************)
VARIABLES
  options,           \* BatchProcessor.options, fixed by the constructor
  processingStatus,  \* BatchProcessor.processingStatus
  pc,                \* where the processImages call of the processor stands
  images,            \* processImages: argument images
  batches,           \* processImages: const batches
  batchResults,      \* processImages: const batchResults
  i,                 \* processImages: loop variable i (0-based batch index)
  attempt,           \* processBatchWithRetry: loop variable attempt
  lastError,         \* processBatchWithRetry: let lastError
  report,            \* the DiagnosticReport the call resolved to, if any
  inFlight,          \* batch indices whose fetch('/api/process-batch') is pending
  callLog,           \* history: every analysis call of this run, in issue order
  delays,            \* history: every timer the call waited for, in order
  outcome,           \* history: how processBatchWithRetry ended for each batch
  notifications,     \* history: every call of options.onProgress of this run
  reportsGenerated,  \* history: the calls of generateFinalReport of this run
  statusFile,        \* temp/<sessionId>_status.json of the status endpoint
  upload,            \* the last request to POST /api/upload and its answer
  calls,             \* two overlapping processImages calls on one processor
  batchStart,        \* createBatches: loop variable i, when followed step by step
  sessionStore,      \* the sessions held by each BatchProcessor instance
  reportAnswer,      \* the answer of the last GET of the report endpoint
  snapshot,          \* a value getStatus returned, as it was when returned
  session,           \* the ProcessingSession handed to ReportGenerator
  fullReports,       \* what the calls of generateFullReport received and returned
  now,               \* the clock new Date() reads
  posts,             \* two status POST requests, each from its read to its write
  dashboard,         \* the dashboard page: its state and its timer
  diagnosticBatch,   \* the batch handed to generateBatchSummary
  summary            \* what the call on diagnosticBatch gave

vars == << options, processingStatus, pc, images, batches, batchResults, i,
           attempt, lastError, report, inFlight, callLog, delays, outcome,
           notifications, reportsGenerated, statusFile, upload, calls,
           batchStart, sessionStore, reportAnswer, snapshot, session,
           fullReports, now, posts, dashboard, diagnosticBatch, summary >>

bpLocals == << images, batches, batchResults, i, attempt, lastError >>

history == << inFlight, callLog, delays, outcome >>

\* the state of the BatchProcessor and of its call
bpVars == << options, processingStatus, pc, bpLocals, report, history,
             notifications, reportsGenerated >>

\* the state outside the BatchProcessor
generator == << session, fullReports, now >>

extractor == << diagnosticBatch, summary >>

others == << posts, dashboard, extractor >>

store == << sessionStore, reportAnswer, snapshot, generator, others >>

outside == << statusFile, upload, calls, batchStart, store >>

(***************************************************************************)
(* Values.                                                                 *)
(***************************************************************************)
\* which of the optional callbacks of the options throws when it is called
Callbacks == {"none", "onProgress", "onBatchComplete", "onError"}

BatchSizes == (1..MaxBatchSize) \cup {DefaultBatchSize}

RetryDelays == {0, 1, DefaultRetryDelay}

\* image counts of a call; the number of batches of a call is at most MaxImages
ImageCounts(batchSize) ==
  {n \in (0..MaxImages) \cup {45} : CeilDiv(n, batchSize) <= MaxImages}

\* what the analysis service behind /api/process-batch answers
Upstream == {"ok", "error"}

\* the initial / reset value of processingStatus
IdleStatus ==
  [totalImages |-> 0, processedImages |-> 0, currentBatch |-> 0,
   totalBatches |-> 0, status |-> "idle", errors |-> << >>, results |-> << >>]

NoError == [message |-> "null", attempt |-> -1]

NoReport == [generated |-> FALSE]

NoFile == [exists |-> FALSE]

NoUpload == [requested |-> FALSE]

\* the BatchProcessor instances of the routes: the one the upload handler
\* constructs for its request, and the singleton of the report route
Processors == {"request", "global"}

\* the id createSession gives the session of the upload, and an id no session has
SessionIds == {SessionId, "session-unknown"}

NoSession == [exists |-> FALSE]

NoAnswer == [requested |-> FALSE]

NoSnapshot == [taken |-> FALSE]

\* the two status POST requests that overlap
Requests == {1, 2}

NoPost == [pc |-> "none"]

NoDashboard == [mounted |-> FALSE]

NoBatch == [batchNumber |-> 0]

NoSummary == [called |-> FALSE]

\* the two sessions whose processImages calls overlap
Sessions == {1, 2}

\* the locals of a processImages call that has not been made yet
NoCall ==
  [pc |-> "idle", images |-> << >>, batches |-> << >>, batchResults |-> << >>,
   i |-> 0, attempt |-> 0, lastError |-> NoError, report |-> NoReport,
   ended |-> << >>]

Throws(callback) == options.callbacks = callback

\* a bug: the callback is given a status whose counters were never updated
OnProgressStale(st, at) ==
  [at |-> at,
   currentBatch |-> st.currentBatch,
   processedImages |-> 0,
   results |-> << >>,
   errors |-> << >>,
   calls |-> Len(callLog)]

\* this.options.onProgress?.(this.processingStatus) called with status st: what
\* the callback sees, at the start (line 51) or the end (line 69) of a batch
OnProgress(st, at) ==
  [at |-> at,
   currentBatch |-> st.currentBatch,
   processedImages |-> st.processedImages,
   results |-> st.results,
   errors |-> st.errors,
   calls |-> Len(callLog)]

(***************************************************************************)
(* POST /api/process-batch: the response processSingleBatch receives.      *)
(***************************************************************************)
ProcessBatchEndpoint(imgs, batchIndex, upstream) ==
  IF Len(imgs) = 0
    THEN [ok |-> FALSE, status |-> 400, statusText |-> "Bad Request"]
  ELSE IF Len(imgs) > MaxImagesPerRequest
    THEN [ok |-> FALSE, status |-> 400, statusText |-> "Bad Request"]
  ELSE IF upstream # "ok"
    THEN [ok |-> FALSE, status |-> 500, statusText |-> "Internal Server Error"]
  ELSE [ok |-> TRUE, status |-> 200,
        body |-> [success |-> TRUE,
                  result |-> [sessionId |-> SessionId,
                              batchIndex |-> batchIndex,
                              imageCount |-> Len(imgs),
                              analysis |-> AnalysisText,
                              status |-> "completed"]]]

(***************************************************************************)
(* Report generation (BatchProcessor.generateFinalReport and helpers).     *)
(***************************************************************************)
\* result && result.analysis, for a parsed response body
IsValidResult(result) ==
  "analysis" \in DOMAIN result /\ result.analysis # ""

\* (valid / totalBatches) * 100: 0/0 is NaN, otherwise the rate in tenths of a
\* percent, rounded half up as toFixed(1) prints it
SuccessRate(valid, totalBatches) ==
  IF totalBatches = 0
    THEN [nan |-> TRUE, tenths |-> 0]
    ELSE [nan |-> FALSE,
          tenths |-> (2 * valid * 1000 + totalBatches) \div (2 * totalBatches)]

\* analysis && analysis.trim().length > 0
IsNonBlank(analysis) == analysis \notin {"", " "}

AggregateFindings(results, st) ==
  LET findings == SelectSeq([k \in 1..Len(results) |-> results[k].analysis],
                            IsNonBlank)
  IN  IF Len(results) = 0
        THEN [text |-> "No successful analyses completed. Please review errors and retry processing.",
              findings |-> << >>]
      ELSE IF Len(findings) = 0
        THEN [text |-> "Analysis completed but no specific findings were generated.",
              findings |-> << >>]
      ELSE [text |-> "Comprehensive analysis",
            totalImages |-> st.totalImages,
            batches |-> Len(results),
            findings |-> findings]

\* a bug: the fallback for an empty result list is missing
GenerateRecommendationsNoFallback(results, st) ==
  << "Review all findings in conjunction with clinical history and symptoms.",
     "Consider correlation with previous imaging studies if available." >>
  \o (IF Len(st.errors) > 0
        THEN << "Note: batches failed processing and may require manual review." >>
        ELSE << >>)
  \o << "Consult with radiologist for final interpretation and clinical correlation." >>

GenerateRecommendations(results, st) ==
  IF Len(results) = 0
    THEN << "Unable to generate recommendations due to processing failures.",
            "Consider re-uploading images and ensuring proper DICOM format." >>
    ELSE << "Review all findings in conjunction with clinical history and symptoms.",
            "Consider correlation with previous imaging studies if available." >>
         \o (IF Len(st.errors) > 0
               THEN << "Note: batches failed processing and may require manual review." >>
               ELSE << >>)
         \o (IF /\ st.totalBatches # 0
                /\ SuccessRate(Len(results), st.totalBatches).tenths < 1000
               THEN << "Processing success rate below 100%. Consider reprocessing failed batches." >>
               ELSE << >>)
         \o << "Consult with radiologist for final interpretation and clinical correlation." >>

GenerateFinalReport(results, st) ==
  LET validResults == SelectSeq(results, IsValidResult)
  IN  [generated |-> TRUE,
       sessionId |-> SessionId,
       totalImages |-> st.totalImages,
       processedImages |-> st.processedImages,
       totalBatches |-> st.totalBatches,
       successfulBatches |-> Len(validResults),
       failedBatches |-> Len(st.errors),
       overallFindings |-> AggregateFindings(validResults, st),
       batchSummaries |->
         [k \in 1..Len(validResults) |->
            [batchNumber |-> k,
             imageCount |-> IF "imageCount" \in DOMAIN validResults[k]
                              /\ validResults[k].imageCount # 0
                              THEN validResults[k].imageCount
                              ELSE options.batchSize,
             findings |-> validResults[k].analysis]],
       recommendations |-> GenerateRecommendations(validResults, st),
       errors |-> st.errors,
       successRate |-> SuccessRate(Len(validResults), st.totalBatches)]

(***************************************************************************)
(* Loop conditions and the backoff of BatchProcessor.                      *)
(***************************************************************************)
\* a bug: the loop ends after the first batch
BatchLoopStopsEarly(idx, bs) == idx < Len(bs) /\ idx < 1

\* an off-by-one bug: the last batch is never processed
BatchLoopSkipsLast(idx, bs) == idx < Len(bs) - 1

\* for (let i = 0; i < batches.length; i++)
BatchLoopContinues(idx, bs) == idx < Len(bs)

\* an off-by-one bug: one attempt too many
RetryLoopOneMore(att, maxRetries) == att <= maxRetries

\* for (let attempt = 0; attempt < this.options.maxRetries; attempt++)
RetryLoopContinues(att, maxRetries) == att < maxRetries

\* a bug: the delay is also awaited after the last failed attempt
ShouldDelayAlways(att, maxRetries) == att < maxRetries

\* if (attempt < this.options.maxRetries - 1)
ShouldDelay(att, maxRetries) == att < maxRetries - 1

\* a bug: only the first error is kept (lastError = lastError || error)
CaughtErrorKeepsFirst(prev, err) == IF prev.attempt = -1 THEN err ELSE prev

\* lastError = error as Error, line 95
CaughtError(prev, err) == err

\* throw lastError || new Error(`Failed to process batch ... attempts`), line 102
ExhaustedError(lastErr) ==
  IF lastErr.message = "null"
    THEN [message |-> "Failed to process batch after maxRetries attempts",
          attempt |-> -1]
    ELSE lastErr

\* a bug: constant delay instead of exponential backoff
BackoffDelayConstant(retryDelay, att) == retryDelay

\* a bug: the configured batch size is counted, not the images of the batch
AddProcessedBatchSize(count, batch, batchSize) == count + batchSize

\* this.processingStatus.processedImages += batches[i].length
AddProcessed(count, batch, batchSize) == count + Len(batch)

\* a bug: the attempt count of the batch before is carried over
FirstAttemptCarriedOver(previous) == previous

\* for (let attempt = 0; ...): the attempt count a batch starts with, whatever
\* the count of the batch before was
FirstAttempt(previous) == 0

\* this.options.retryDelay * Math.pow(2, attempt)
BackoffDelay(retryDelay, att) == retryDelay * Pow2(att)

(***************************************************************************)
(* BatchProcessor: constructor, processImages, reset.                      *)
(* The model follows one call of processImages at a time: the next call    *)
(* (or reset) is issued when no call is suspended at an await.  A fetch    *)
(* that rejects takes the same path as a response that is not ok (both are *)
(* caught at line 94), so the model has the one failure.  A callback of    *)
(* the options either returns or throws, every time it is called.          *)
(***************************************************************************)
Init ==
  /\ options \in [batchSize : BatchSizes,
                  maxRetries : 0..MaxRetriesBound,
                  retryDelay : RetryDelays,
                  callbacks : Callbacks]
  /\ processingStatus = IdleStatus
  /\ pc = "idle"
  /\ images = << >>
  /\ batches = << >>
  /\ batchResults = << >>
  /\ i = 0
  /\ attempt = 0
  /\ lastError = NoError
  /\ report = NoReport
  /\ inFlight = {}
  /\ callLog = << >>
  /\ delays = << >>
  /\ outcome = << >>
  /\ notifications = << >>
  /\ reportsGenerated = 0
  /\ statusFile = NoFile
  /\ upload = NoUpload
  /\ calls = [c \in Sessions |-> NoCall]
  /\ batchStart = 0
  /\ sessionStore = [p \in Processors |-> [id \in SessionIds |-> NoSession]]
  /\ reportAnswer = NoAnswer
  /\ snapshot = NoSnapshot
  /\ session = NoSession
  /\ fullReports = << >>
  /\ now = 0
  /\ posts = [r \in Requests |-> NoPost]
  /\ dashboard = NoDashboard
  /\ diagnosticBatch = NoBatch
  /\ summary = NoSummary

NoCallSuspended == pc \in {"idle", "returned", "thrown"}

\* processImages, lines 36-47: the status is replaced and the batches are cut
ProcessImages(n) ==
  /\ NoCallSuspended
  /\ images' = ImageList(n)
  /\ processingStatus' =
       [totalImages |-> n, processedImages |-> 0, currentBatch |-> 0,
        totalBatches |-> CeilDiv(n, options.batchSize),
        status |-> "processing", errors |-> << >>, results |-> << >>]
  /\ batches' = CreateBatches(ImageList(n), options.batchSize)
  /\ batchResults' = << >>
  /\ i' = 0
  /\ attempt' = 0
  /\ lastError' = NoError
  /\ report' = NoReport
  /\ inFlight' = {}
  /\ callLog' = << >>
  /\ delays' = << >>
  /\ outcome' = << >>
  /\ notifications' = << >>
  /\ reportsGenerated' = 0
  /\ pc' = "loop"
  /\ UNCHANGED << options, outside >>

\* processImages, lines 49-51 and 72-73: the head of the batch loop, and the
\* end of the call once the loop is over
BatchLoop ==
  /\ pc = "loop"
  /\ IF BatchLoopContinues(i, batches)
       THEN /\ processingStatus' = [processingStatus EXCEPT !.currentBatch = i + 1]
            /\ pc' = IF Throws("onProgress") THEN "thrown" ELSE "attempt"
            /\ attempt' = FirstAttempt(attempt)
            /\ lastError' = NoError
            /\ notifications' = Append(notifications,
                                       OnProgress(processingStatus', "start"))
            /\ UNCHANGED << report, reportsGenerated >>
       ELSE /\ processingStatus' = [processingStatus EXCEPT !.status = "completed"]
            /\ report' = GenerateFinalReport(batchResults, processingStatus')
            /\ reportsGenerated' = reportsGenerated + 1
            /\ pc' = "returned"
            /\ UNCHANGED << attempt, lastError, notifications >>
  /\ UNCHANGED << options, images, batches, batchResults, i, history, outside >>

\* processImages, lines 59-69, entered with status st: the error is recorded,
\* onError and onProgress are called, and the loop goes on with the next batch
CatchBatchError(st, err) ==
  /\ processingStatus' =
       [st EXCEPT !.errors = Append(@, [batchIndex |-> i,
                                         error |-> err.message,
                                         attempt |-> err.attempt])]
  /\ notifications' = IF Throws("onError")
                         THEN notifications
                         ELSE Append(notifications,
                                     OnProgress(processingStatus', "end"))
  /\ IF Throws("onError") \/ Throws("onProgress")
       THEN pc' = "thrown" /\ i' = i
       ELSE pc' = "loop" /\ i' = i + 1

\* a bug: the batch is not awaited (processBatchWithRetry called without await),
\* so the loop goes on to the next batch while the request is pending
RetryLoopNoAwait ==
  /\ pc = "attempt"
  /\ RetryLoopContinues(attempt, options.maxRetries)
  /\ inFlight' = inFlight \cup {i}
  /\ callLog' = Append(callLog, [batch |-> i, attempt |-> attempt, ok |-> "pending"])
  /\ i' = i + 1
  /\ pc' = "loop"
  /\ UNCHANGED << options, processingStatus, images, batches, batchResults,
                  attempt, lastError, report, delays, outcome, notifications,
                  reportsGenerated, outside >>

\* processBatchWithRetry, lines 91-93 and 102: the head of the retry loop;
\* either processSingleBatch sends its request, or the retries are used up
RetryLoop ==
  /\ pc = "attempt"
  /\ IF RetryLoopContinues(attempt, options.maxRetries)
       THEN /\ pc' = "fetch"
            /\ inFlight' = inFlight \cup {i}
            /\ callLog' = Append(callLog, [batch |-> i, attempt |-> attempt,
                                           ok |-> "pending"])
            /\ UNCHANGED << processingStatus, i, outcome, notifications >>
       ELSE /\ outcome' = Append(outcome, [batch |-> i, result |-> "failure"])
            /\ CatchBatchError(processingStatus, ExhaustedError(lastError))
            /\ UNCHANGED << inFlight, callLog >>
  /\ UNCHANGED << options, images, batches, batchResults, attempt, lastError,
                  report, delays, reportsGenerated, outside >>

\* the answer to the pending request arrives: processSingleBatch lines 123-127,
\* processBatchWithRetry lines 93-99, processImages lines 55-58 and 69
FetchResponse(upstream) ==
  /\ pc = "fetch"
  /\ i \in inFlight
  /\ LET response == ProcessBatchEndpoint(batches[i + 1], i, upstream)
         logged == [callLog EXCEPT ![Len(callLog)].ok =
                      IF response.ok THEN "ok" ELSE "failed"]
     IN  /\ inFlight' = inFlight \ {i}
         /\ callLog' = logged
         /\ IF response.ok
              THEN LET st == [processingStatus EXCEPT
                                !.results = Append(@, response.body),
                                !.processedImages =
                                   AddProcessed(@, batches[i + 1], options.batchSize)]
                   IN  /\ batchResults' = Append(batchResults, response.body)
                       /\ outcome' = Append(outcome, [batch |-> i, result |-> "success"])
                       /\ IF Throws("onBatchComplete")
                            THEN CatchBatchError(st, [message |-> "onBatchComplete threw",
                                                      attempt |-> -1])
                            ELSE /\ processingStatus' = st
                                 /\ notifications' =
                                      Append(notifications, OnProgress(st, "end"))
                                 /\ pc' = IF Throws("onProgress") THEN "thrown" ELSE "loop"
                                 /\ i' = IF Throws("onProgress") THEN i ELSE i + 1
                       /\ UNCHANGED << attempt, lastError, delays >>
              ELSE /\ lastError' =
                        CaughtError(lastError,
                          [message |-> "Batch processing failed: " \o response.statusText,
                           attempt |-> attempt])
                   /\ IF ShouldDelay(attempt, options.maxRetries)
                        THEN /\ pc' = "delay"
                             /\ delays' = Append(delays,
                                  [batch |-> i, attempt |-> attempt,
                                   ms |-> BackoffDelay(options.retryDelay, attempt),
                                   ended |-> Len(outcome),
                                   calls |-> Len(callLog)])
                             /\ UNCHANGED attempt
                        ELSE /\ pc' = "attempt"
                             /\ attempt' = attempt + 1
                             /\ UNCHANGED delays
                   /\ UNCHANGED << processingStatus, batchResults, i, outcome,
                                   notifications >>
  /\ UNCHANGED << options, images, batches, report, reportsGenerated, outside >>

\* the timer of delay(ms) fires: attempt++ and back to the head of the retry loop
DelayElapsed ==
  /\ pc = "delay"
  /\ pc' = "attempt"
  /\ attempt' = attempt + 1
  /\ UNCHANGED << options, processingStatus, images, batches, batchResults, i,
                  lastError, report, history, notifications, reportsGenerated,
                  outside >>

\* BatchProcessor.reset
Reset ==
  /\ NoCallSuspended
  /\ processingStatus' = IdleStatus
  /\ UNCHANGED << options, pc, bpLocals, report, history, notifications,
                  reportsGenerated, outside >>

Next ==
  \/ \E n \in ImageCounts(options.batchSize) : ProcessImages(n)
  \/ BatchLoop
  \/ RetryLoop
  \/ \E upstream \in Upstream : FetchResponse(upstream)
  \/ DelayElapsed
  \/ Reset

Spec == Init /\ [][Next]_vars

\* The code of the call runs on whenever it can: the loop heads are plain
\* code and the timer of delay(ms) always fires.  Nothing is assumed of the
\* answer to a request: fetch is called without a signal or a timeout (lines
\* 110-121), so the promise settles only if the network answers.
SpecFair ==
  /\ Spec
  /\ WF_vars(BatchLoop)
  /\ WF_vars(RetryLoop)
  /\ WF_vars(DelayElapsed)

\* SpecFair with an upstream that answers every request, with a success or a
\* failure
SpecAnswered ==
  /\ SpecFair
  /\ WF_vars(\E upstream \in Upstream : FetchResponse(upstream))

(***************************************************************************)
(* The session status endpoint: POST /api/status/<sessionId>.              *)
(***************************************************************************)
Statuses == {"uploading", "converting", "processing", "completed", "error"}

Num(n) == [kind |-> "number", value |-> n]

NaN == [kind |-> "NaN", value |-> 0]

Infinity == [kind |-> "Infinity", value |-> 0]

Null == [kind |-> "null", value |-> 0]

\* the options the constructor sets when it is given none
DefaultOptions ==
  [batchSize |-> DefaultBatchSize, maxRetries |-> DefaultMaxRetries,
   retryDelay |-> DefaultRetryDelay, callbacks |-> "none"]

\* the status POST starts from when the session has no status file yet
NewStatus ==
  [sessionId |-> SessionId, status |-> "uploading", totalImages |-> 0,
   processedImages |-> 0, currentBatch |-> 0, totalBatches |-> 0,
   completedBatches |-> 0, errors |-> << >>, progress |-> Num(0),
   message |-> "Initializing...", convertedImages |-> 0,
   failedConversions |-> 0, aiProcessingResults |-> << >>]

\* { ...currentStatus, ...updates }
Merge(current, updates) ==
  [f \in DOMAIN current \cup DOMAIN updates |->
     IF f \in DOMAIN updates THEN updates[f] ELSE current[f]]

\* a / b * c as a JavaScript number, kept to its integer part when finite
Scaled(a, b, c) ==
  IF b # 0 THEN Num((a * c) \div b)
  ELSE IF a = 0 THEN NaN
  ELSE Infinity

\* base + x for a JavaScript number x
Plus(base, x) == IF x.kind = "number" THEN Num(base + x.value) ELSE x

\* Math.max(progress, 0): null counts as 0, NaN stays NaN
MaxWithZero(p) ==
  IF p.kind = "null" THEN Num(0)
  ELSE IF p.kind = "number" THEN Num(Max(p.value, 0))
  ELSE p

\* the switch over updatedStatus.status, lines 121-140
WithProgress(st) ==
  IF st.totalImages > 0
    THEN CASE st.status = "uploading" -> [st EXCEPT !.progress = Num(10)]
           [] st.status = "converting" ->
                [st EXCEPT !.progress =
                   Plus(20, Scaled(st.convertedImages, st.totalImages, 30))]
           [] st.status = "processing" ->
                [st EXCEPT !.progress =
                   Plus(50, Scaled(st.completedBatches, st.totalBatches, 40))]
           [] st.status = "completed" ->
                Merge([st EXCEPT !.progress = Num(100)], [endTime |-> "now"])
           [] st.status = "error" ->
                [st EXCEPT !.progress = MaxWithZero(st.progress)]
           [] OTHER -> st
    ELSE st

\* JSON.stringify followed by JSON.parse: NaN and Infinity are written as null
JsonRoundTrip(st) ==
  [st EXCEPT !.progress = IF @.kind = "number" THEN @ ELSE Null]

\* the request bodies of the model: one field each, or no field at all
StatusUpdates ==
  { [status |-> s] : s \in Statuses }
    \cup { [totalImages |-> n] : n \in 0..MaxConverted }
    \cup { [convertedImages |-> n] : n \in 0..MaxConverted }
    \cup { [totalBatches |-> n] : n \in 0..MaxConverted }
    \cup { [completedBatches |-> n] : n \in 0..MaxConverted }
    \cup { [f \in {} |-> 0] }

\* POST, lines 75-154: read or create, merge, recompute progress, write
PostStatus(updates) ==
  /\ LET currentStatus == IF statusFile = NoFile THEN NewStatus ELSE statusFile
         updatedStatus == WithProgress(Merge(currentStatus, updates))
     IN  statusFile' = JsonRoundTrip(updatedStatus)
  /\ UNCHANGED << bpVars, upload, calls, batchStart, store >>

\* POST, lines 75-97: the request body is parsed and the status file is read
\* (or the new status made); the handler is then suspended at its next await
PostStatusRead(r, updates) ==
  /\ posts[r].pc = "none"
  /\ posts' = [posts EXCEPT ![r] =
       [pc |-> "read", updates |-> updates,
        currentStatus |-> IF statusFile = NoFile THEN NewStatus ELSE statusFile]]
  /\ UNCHANGED << bpVars, statusFile, upload, calls, batchStart, sessionStore,
                  reportAnswer, snapshot, generator, dashboard, extractor >>

\* POST, lines 116-154: merge, recompute progress, write the file, answer
PostStatusWrite(r) ==
  /\ posts[r].pc = "read"
  /\ statusFile' =
       JsonRoundTrip(WithProgress(Merge(posts[r].currentStatus, posts[r].updates)))
  /\ posts' = [posts EXCEPT ![r].pc = "answered"]
  /\ UNCHANGED << bpVars, upload, calls, batchStart, sessionStore,
                  reportAnswer, snapshot, generator, dashboard, extractor >>

InitStatus == Init /\ options = DefaultOptions

NextStatusRace ==
  \/ \E r \in Requests, updates \in StatusUpdates : PostStatusRead(r, updates)
  \/ \E r \in Requests : PostStatusWrite(r)

SpecStatusRace == InitStatus /\ [][NextStatusRace]_vars

NextStatus == \E updates \in StatusUpdates : PostStatus(updates)

SpecStatus == InitStatus /\ [][NextStatus]_vars

(***************************************************************************)
(* getStatus during and after a processImages call.  The object spread of  *)
(* getStatus copies the values of the properties: the numbers and the      *)
(* status string are the snapshot's own, errors and results are the arrays *)
(* of this.processingStatus themselves.  processImages pushes to those     *)
(* arrays and replaces the object only at the start of the next call; the  *)
(* model takes one snapshot and follows it to the end of its call.         *)
(***************************************************************************)
\* { ...this.processingStatus }: the properties the copy holds by value
OwnProperties(st) ==
  [totalImages |-> st.totalImages, processedImages |-> st.processedImages,
   currentBatch |-> st.currentBatch, totalBatches |-> st.totalBatches,
   status |-> st.status]

\* getStatus, lines 210-212; errorsThen and resultsThen keep what the arrays
\* held at the call
GetStatus ==
  /\ ~snapshot.taken
  /\ snapshot' = [taken |-> TRUE, own |-> OwnProperties(processingStatus),
                  errorsThen |-> processingStatus.errors,
                  resultsThen |-> processingStatus.results]
  /\ UNCHANGED << bpVars, statusFile, upload, calls, batchStart, others, sessionStore,
                  reportAnswer, generator >>

\* the snapshot as its holder reads it now
SnapshotRead(snap) ==
  [totalImages |-> snap.own.totalImages,
   processedImages |-> snap.own.processedImages,
   currentBatch |-> snap.own.currentBatch,
   totalBatches |-> snap.own.totalBatches,
   status |-> snap.own.status,
   errors |-> processingStatus.errors,
   results |-> processingStatus.results]

\* the argument of onProgress, line 51 or 69, as the callback reads it now: it
\* is this.processingStatus itself
ProgressArgumentRead == processingStatus

InitSnapshot ==
  /\ Init
  /\ options.maxRetries \in 1..2
  /\ options.retryDelay = DefaultRetryDelay
  /\ options.callbacks = "none"

NextSnapshot ==
  \/ \E n \in ImageCounts(options.batchSize) : ~snapshot.taken /\ ProcessImages(n)
  \/ BatchLoop
  \/ RetryLoop
  \/ \E upstream \in Upstream : FetchResponse(upstream)
  \/ DelayElapsed
  \/ GetStatus

SpecSnapshot == InitSnapshot /\ [][NextSnapshot]_vars

(***************************************************************************)
(* ReportGenerator.  The text of an AI response is the list of its lines;  *)
(* a line is described by what the generator looks at: how the trimmed     *)
(* line begins (with '-', with a digit and a dot, not at all when it is    *)
(* blank, or with anything else), whether it contains 'findings' or        *)
(* 'observations', whether it contains 'recommendation' or 'suggest', the  *)
(* severity classes of which it contains a keyword, and the rest of it.    *)
(***************************************************************************)
SeverityOrder == << "normal", "mild", "moderate", "severe", "critical" >>

Line(lead, findingsWord, recommendationWord, keywords, text) ==
  [lead |-> lead, findingsWord |-> findingsWord,
   recommendationWord |-> recommendationWord, keywords |-> keywords,
   text |-> text]

\* the AI responses of the model
Responses ==
  { \* the empty text: split gives one empty line
    << Line("blank", FALSE, FALSE, {}, "") >>,
    \* a findings section closed by a blank line, and a bullet after it
    << Line("plain", TRUE, FALSE, {}, "Findings:"),
       Line("bullet", FALSE, FALSE, {"mild"}, "mild effusion"),
       Line("blank", FALSE, FALSE, {}, ""),
       Line("bullet", FALSE, FALSE, {}, "note") >>,
    \* no section at all: a plain line and a numbered line
    << Line("plain", FALSE, FALSE, {"critical", "moderate"}, "urgent, moderate"),
       Line("numbered", FALSE, FALSE, {}, "mass") >>,
    \* a recommendations section
    << Line("plain", FALSE, TRUE, {}, "Recommendations:"),
       Line("bullet", FALSE, FALSE, {}, "follow-up CT"),
       Line("numbered", FALSE, FALSE, {}, "biopsy") >>,
    \* both sections, the recommendation one repeating a recommendation
    << Line("plain", TRUE, FALSE, {"severe"}, "Significant findings"),
       Line("bullet", FALSE, FALSE, {}, "fracture"),
       Line("plain", FALSE, TRUE, {}, "We suggest:"),
       Line("bullet", FALSE, FALSE, {}, "follow-up CT") >>,
    \* a recommendation in the words of a general recommendation
    << Line("plain", FALSE, TRUE, {}, "Recommendation:"),
       Line("bullet", FALSE, FALSE, {},
            "Follow up with referring physician to discuss findings") >> }

\* trimmed.replace(/^[-\d.]\s*/, ''): one leading '-', digit or '.' is removed,
\* and the white space after it; of '1. x' the text '. x' remains
StripLead(line) ==
  [text |-> line.text, dot |-> line.lead = "numbered"]

\* extractFindings, lines 36-47: the body of the loop for one line
FindingsStep(st, line) ==
  IF line.findingsWord
    THEN [st EXCEPT !.inSection = TRUE]
    ELSE [inSection |-> st.inSection /\ line.lead # "blank",
          found |-> IF \/ st.inSection /\ line.lead = "bullet"
                       \/ line.lead = "numbered"
                      THEN Append(st.found, StripLead(line))
                      ELSE st.found]

\* extractRecommendations, lines 58-69: the body of the loop for one line
RecommendationsStep(st, line) ==
  IF line.recommendationWord
    THEN [st EXCEPT !.inSection = TRUE]
    ELSE [inSection |-> st.inSection /\ line.lead # "blank",
          found |-> IF st.inSection /\ line.lead \in {"bullet", "numbered"}
                      THEN Append(st.found, StripLead(line))
                      ELSE st.found]

RECURSIVE FindingsLoop(_, _)
FindingsLoop(st, lines) ==
  IF lines = << >> THEN st
  ELSE FindingsLoop(FindingsStep(st, Head(lines)), Tail(lines))

RECURSIVE RecommendationsLoop(_, _)
RecommendationsLoop(st, lines) ==
  IF lines = << >> THEN st
  ELSE RecommendationsLoop(RecommendationsStep(st, Head(lines)), Tail(lines))

\* extractFindings; the fallback is the first 200 characters of the text
ExtractFindings(aiResponse) ==
  LET findings == FindingsLoop([inSection |-> FALSE, found |-> << >>],
                               aiResponse).found
  IN  IF Len(findings) > 0 THEN findings
      ELSE << [preview |-> aiResponse] >>

ExtractRecommendations(aiResponse) ==
  RecommendationsLoop([inSection |-> FALSE, found |-> << >>], aiResponse).found

\* a bug: the keywords of 'moderate' are looked for before those of 'severe'
DetermineSeverityModerateFirst(aiResponse) ==
  LET includes == UNION {aiResponse[k].keywords : k \in 1..Len(aiResponse)}
  IN  IF "critical" \in includes THEN "critical"
      ELSE IF "moderate" \in includes THEN "moderate"
      ELSE IF "severe" \in includes THEN "severe"
      ELSE IF "mild" \in includes THEN "mild"
      ELSE "normal"

\* determineSeverity, lines 74-91
DetermineSeverity(aiResponse) ==
  LET includes == UNION {aiResponse[k].keywords : k \in 1..Len(aiResponse)}
  IN  IF "critical" \in includes THEN "critical"
      ELSE IF "severe" \in includes THEN "severe"
      ELSE IF "moderate" \in includes THEN "moderate"
      ELSE IF "mild" \in includes THEN "mild"
      ELSE "normal"

\* severityOrder.indexOf(severity)
IndexOfSeverity(severity) ==
  CHOOSE k \in 1..Len(SeverityOrder) : SeverityOrder[k] = severity

RECURSIVE HighestFrom(_, _)
HighestFrom(highest, severities) ==
  IF severities = << >> THEN highest
  ELSE HighestFrom(IF IndexOfSeverity(Head(severities)) > IndexOfSeverity(highest)
                     THEN Head(severities) ELSE highest,
                   Tail(severities))

\* getHighestSeverity, lines 129-140
GetHighestSeverity(severities) == HighestFrom("normal", severities)

RECURSIVE SumImageCount(_)
\* batches.reduce((sum, batch) => sum + batch.imageCount, 0)
SumImageCount(bs) ==
  IF bs = << >> THEN 0 ELSE Head(bs).imageCount + SumImageCount(Tail(bs))

RECURSIVE Unique(_)
\* Array.from(new Set(list)): the first occurrence of each element, in order
Unique(list) ==
  IF list = << >> THEN << >>
  ELSE LET init == Unique(SubSeq(list, 1, Len(list) - 1))
           last == list[Len(list)]
       IN  IF \E k \in 1..Len(init) : init[k] = last THEN init
           ELSE Append(init, last)

\* generateBatchSummary, lines 93-104
GenerateBatchSummary(batch) ==
  [batchNumber |-> batch.batchNumber,
   imageCount |-> batch.imageCount,
   keyFindings |-> Slice(ExtractFindings(batch.aiResponse), 0, 3),
   severity |-> DetermineSeverity(batch.aiResponse),
   processingTime |-> batch.processingTime]

IsPriorityBatch(batch) ==
  DetermineSeverity(batch.aiResponse) \in {"critical", "severe"}

\* generateExecutiveSummary, lines 106-127: the parts the text is made of
GenerateExecutiveSummary(bs) ==
  LET severities == [k \in 1..Len(bs) |-> DetermineSeverity(bs[k].aiResponse)]
      highestSeverity == GetHighestSeverity(severities)
      priority == SelectSeq(bs, IsPriorityBatch)
      criticalFindings ==
        Flatten([k \in 1..Len(priority) |->
                   Slice(ExtractFindings(priority[k].aiResponse), 0, 2)])
  IN  [totalImages |-> SumImageCount(bs),
       batches |-> Len(bs),
       priority |-> IF highestSeverity \in {"critical", "severe"}
                      THEN highestSeverity ELSE "",
       keyConcerns |-> Slice(criticalFindings, 0, 3)]

\* generateDetailedFindings, lines 142-154
GenerateDetailedFindings(bs) ==
  [k \in 1..Len(bs) |->
     [batchNumber |-> bs[k].batchNumber,
      imageCount |-> bs[k].imageCount,
      content |-> bs[k].aiResponse,
      findings |-> ExtractFindings(bs[k].aiResponse),
      recommendations |-> ExtractRecommendations(bs[k].aiResponse)]]

GeneralRecommendations ==
  << [text |-> "Follow up with referring physician to discuss findings",
      dot |-> FALSE],
     [text |-> "Consider correlation with clinical symptoms and history",
      dot |-> FALSE],
     [text |-> "Maintain regular monitoring schedule as clinically indicated",
      dot |-> FALSE] >>

\* generateConsolidatedRecommendations, lines 156-173
GenerateConsolidatedRecommendations(bs) ==
  Unique(Flatten([k \in 1..Len(bs) |-> ExtractRecommendations(bs[k].aiResponse)]))
    \o GeneralRecommendations

\* a bug: for a session still in progress the time elapsed so far is reported
TotalProcessingTimeSoFar(sess, at) ==
  IF sess.hasEndTime THEN sess.endTime - sess.startTime
  ELSE at - sess.startTime

\* endTime ? endTime.getTime() - startTime.getTime() : 0
TotalProcessingTime(sess, at) ==
  IF sess.hasEndTime THEN sess.endTime - sess.startTime ELSE 0

\* generateFullReport, lines 175-204, called when the clock reads at
GenerateFullReport(sess, at) ==
  [sessionId |-> sess.sessionId,
   generatedAt |-> at,
   totalImages |-> SumImageCount(sess.batches),
   totalBatches |-> Len(sess.batches),
   processingTime |-> TotalProcessingTime(sess, at),
   executiveSummary |-> GenerateExecutiveSummary(sess.batches),
   batchSummaries |-> [k \in 1..Len(sess.batches) |->
                         GenerateBatchSummary(sess.batches[k])],
   detailedFindings |-> GenerateDetailedFindings(sess.batches),
   recommendations |-> GenerateConsolidatedRecommendations(sess.batches),
   metadata |-> [batchSize |-> DefaultBatchSize,
                 startTime |-> sess.startTime,
                 endTime |-> IF sess.hasEndTime THEN sess.endTime ELSE -1]]

\* the sessions handed to the generator: batch k has number k
GeneratorSessions ==
  UNION {[sessionId : {SessionId},
          batches : {bs \in [1..n -> [batchNumber : 1..n, imageCount : {1},
                                       aiResponse : Responses,
                                       processingTime : {0}]] :
                       \A k \in 1..n : bs[k].batchNumber = k},
          startTime : {0},
          hasEndTime : BOOLEAN,
          endTime : {0}] : n \in 0..MaxSessionBatches}

\* a call of generateFullReport(session): it assigns to nothing the session
\* holds
GenerateFullReportCall ==
  /\ Len(fullReports) < MaxReports
  /\ fullReports' = Append(fullReports,
                           [received |-> session,
                            report |-> GenerateFullReport(session, now)])
  /\ UNCHANGED << session, now >>
  /\ UNCHANGED << bpVars, statusFile, upload, calls, batchStart, others, sessionStore,
                  reportAnswer, snapshot >>

\* time passes
Tick ==
  /\ now < MaxClock
  /\ now' = now + 1
  /\ UNCHANGED << session, fullReports >>
  /\ UNCHANGED << bpVars, statusFile, upload, calls, batchStart, others, sessionStore,
                  reportAnswer, snapshot >>

InitGenerator ==
  /\ options = DefaultOptions
  /\ processingStatus = IdleStatus
  /\ pc = "idle"
  /\ images = << >>
  /\ batches = << >>
  /\ batchResults = << >>
  /\ i = 0
  /\ attempt = 0
  /\ lastError = NoError
  /\ report = NoReport
  /\ inFlight = {}
  /\ callLog = << >>
  /\ delays = << >>
  /\ outcome = << >>
  /\ notifications = << >>
  /\ reportsGenerated = 0
  /\ statusFile = NoFile
  /\ upload = NoUpload
  /\ calls = [c \in Sessions |-> NoCall]
  /\ batchStart = 0
  /\ sessionStore = [p \in Processors |-> [id \in SessionIds |-> NoSession]]
  /\ reportAnswer = NoAnswer
  /\ snapshot = NoSnapshot
  /\ session \in GeneratorSessions
  /\ fullReports = << >>
  /\ now = 0
  /\ posts = [r \in Requests |-> NoPost]
  /\ dashboard = NoDashboard
  /\ diagnosticBatch = NoBatch
  /\ summary = NoSummary

NextGenerator == GenerateFullReportCall \/ Tick

SpecGenerator == InitGenerator /\ [][NextGenerator]_vars

(***************************************************************************)
(* generateBatchSummary on one batch of a session.  The batches of a       *)
(* session are ProcessingBatch objects, whose aiResponse is optional: a    *)
(* batch that ended in error has none.  The texts of the model are every   *)
(* text of 1..MaxLines lines without severity keyword (every beginning,    *)
(* with or without the section words) and every text of 1..MaxKeywordLines *)
(* plain lines with any set of severity keywords.                          *)
(***************************************************************************)
SeverityClasses == {"mild", "moderate", "severe", "critical"}

\* the lines extractFindings and extractRecommendations tell apart
SectionLines ==
  { Line("blank", FALSE, FALSE, {}, "") }
    \cup { Line(lead, fw, rw, {}, lead) :
             lead \in {"bullet", "numbered", "plain"},
             fw \in BOOLEAN, rw \in BOOLEAN }

\* the lines determineSeverity tells apart
KeywordLines ==
  { Line("plain", FALSE, FALSE, kw, "plain") : kw \in SUBSET SeverityClasses }

GeneratedResponses ==
  UNION {[1..n -> SectionLines] : n \in 1..MaxLines}
    \cup UNION {[1..n -> KeywordLines] : n \in 1..MaxKeywordLines}

\* ProcessingBatch, part_002 lines 284-294: with a response, or without
DiagnosticBatches ==
  { [batchNumber |-> 1, imageCount |-> 1, processingTime |-> 0,
     aiResponse |-> text] : text \in GeneratedResponses }
    \cup { [batchNumber |-> 1, imageCount |-> 1, processingTime |-> 0] }

\* generateBatchSummary(batch), lines 93-104: aiResponse.split and
\* aiResponse.toLowerCase throw a TypeError when aiResponse is undefined
GenerateBatchSummaryCall ==
  /\ ~summary.called
  /\ summary' =
       IF "aiResponse" \in DOMAIN diagnosticBatch
         THEN [called |-> TRUE, threw |-> FALSE,
               findings |-> ExtractFindings(diagnosticBatch.aiResponse),
               recommendations |->
                 ExtractRecommendations(diagnosticBatch.aiResponse),
               value |-> GenerateBatchSummary(diagnosticBatch)]
         ELSE [called |-> TRUE, threw |-> TRUE]
  /\ UNCHANGED << bpVars, statusFile, upload, calls, batchStart, sessionStore,
                  reportAnswer, snapshot, generator, posts, dashboard,
                  diagnosticBatch >>

InitExtractor ==
  /\ options = DefaultOptions
  /\ processingStatus = IdleStatus
  /\ pc = "idle"
  /\ images = << >>
  /\ batches = << >>
  /\ batchResults = << >>
  /\ i = 0
  /\ attempt = 0
  /\ lastError = NoError
  /\ report = NoReport
  /\ inFlight = {}
  /\ callLog = << >>
  /\ delays = << >>
  /\ outcome = << >>
  /\ notifications = << >>
  /\ reportsGenerated = 0
  /\ statusFile = NoFile
  /\ upload = NoUpload
  /\ calls = [c \in Sessions |-> NoCall]
  /\ batchStart = 0
  /\ sessionStore = [p \in Processors |-> [id \in SessionIds |-> NoSession]]
  /\ reportAnswer = NoAnswer
  /\ snapshot = NoSnapshot
  /\ session = NoSession
  /\ fullReports = << >>
  /\ now = 0
  /\ posts = [r \in Requests |-> NoPost]
  /\ dashboard = NoDashboard
  /\ diagnosticBatch \in DiagnosticBatches
  /\ summary = NoSummary

NextExtractor == GenerateBatchSummaryCall

SpecExtractor == InitExtractor /\ [][NextExtractor]_vars

(***************************************************************************)
(* A restart of the server process during or after a processImages call.   *)
(* What the BatchProcessor holds is in process memory; the status files of  *)
(* the status route are on disk.                                           *)
(***************************************************************************)
\* GET, lines 46-65: the answer when the session has no status file
DefaultStatus ==
  [NewStatus EXCEPT !.status = "error",
                    !.errors = << "Session not found or expired" >>,
                    !.message = "Session not found"]

\* GET, lines 23-73, for a non-empty session id
GetStatusAnswer(file) ==
  IF file = NoFile
    THEN [code |-> 404, body |-> DefaultStatus]
    ELSE [code |-> 200, body |-> file]

\* the process ends and starts again: a new BatchProcessor with the same
\* options, no call in progress; the files stay
Restart ==
  /\ processingStatus.status # "idle"
  /\ processingStatus' = IdleStatus
  /\ pc' = "idle"
  /\ images' = << >>
  /\ batches' = << >>
  /\ batchResults' = << >>
  /\ i' = 0
  /\ attempt' = 0
  /\ lastError' = NoError
  /\ report' = NoReport
  /\ inFlight' = {}
  /\ callLog' = << >>
  /\ delays' = << >>
  /\ outcome' = << >>
  /\ notifications' = << >>
  /\ reportsGenerated' = 0
  /\ UNCHANGED << options, outside >>

NextRestart == Next \/ Restart

SpecRestart == Init /\ [][NextRestart]_vars

(***************************************************************************)
(* The dashboard page of a session, /dashboard/<sessionId>, and the status *)
(* route it polls.  The state of the page is what useState holds: status   *)
(* (null until an answer is accepted), loading and error; fetches are the  *)
(* calls of fetchStatus that have not finished.  A request is read by the  *)
(* GET handler at some moment after it was sent, and the answer comes back *)
(* at some moment after that.                                              *)
(***************************************************************************)
\* the request bodies posted while the page is open: a status, the image
\* count, or a success flag; the handler stores any field of the body
DashboardUpdates ==
  { [status |-> s] : s \in Statuses }
    \cup { [totalImages |-> 1], [success |-> TRUE] }

\* fetch(`/api/status/${sessionId}`) is called, line 67
Sent == [pc |-> "sent"]

\* the first render and the effect of lines 61-95: the initial fetch and the
\* interval
Mount ==
  /\ dashboard = NoDashboard
  /\ dashboard' = [mounted |-> TRUE, status |-> "null", loading |-> TRUE,
                    error |-> "null", fetches |-> << Sent >>]
  /\ UNCHANGED << bpVars, statusFile, upload, calls, batchStart, sessionStore,
                  reportAnswer, snapshot, generator, posts, extractor >>

\* the callback of setInterval, lines 88-92: it fetches only when the status
\* of this render is 'processing', 'converting' or null
IntervalFires ==
  /\ dashboard.mounted
  /\ dashboard.status \in {"processing", "converting", "null"}
  /\ Len(dashboard.fetches) < MaxFetches
  /\ dashboard' = [dashboard EXCEPT !.fetches = Append(@, Sent)]
  /\ UNCHANGED << bpVars, statusFile, upload, calls, batchStart, sessionStore,
                  reportAnswer, snapshot, generator, posts, extractor >>

\* the GET handler of the status route answers request k from the file
StatusGet(k) ==
  /\ dashboard.mounted
  /\ k \in 1..Len(dashboard.fetches)
  /\ dashboard.fetches[k].pc = "sent"
  /\ dashboard' = [dashboard EXCEPT !.fetches[k] =
                     [pc |-> "answered", data |-> GetStatusAnswer(statusFile).body]]
  /\ UNCHANGED << bpVars, statusFile, upload, calls, batchStart, sessionStore,
                  reportAnswer, snapshot, generator, posts, extractor >>

\* the sequence without its element k
RemoveAt(list, k) ==
  SubSeq(list, 1, k - 1) \o SubSeq(list, k + 1, Len(list))

\* fetchStatus after its awaits, lines 68-81.  When status?.status changes
\* the effect runs again (its dependencies, line 95): the interval is
\* replaced and fetchStatus is called once more.
FetchStatusAnswer(k) ==
  /\ dashboard.mounted
  /\ k \in 1..Len(dashboard.fetches)
  /\ dashboard.fetches[k].pc = "answered"
  /\ LET data == dashboard.fetches[k].data
         success == "success" \in DOMAIN data /\ data.success
         status == IF success THEN data.status ELSE dashboard.status
         rest == RemoveAt(dashboard.fetches, k)
     IN  dashboard' =
           [mounted |-> TRUE,
            status |-> status,
            loading |-> FALSE,
            error |-> IF success THEN "null"
                      ELSE IF "error" \in DOMAIN data THEN data.error
                      ELSE "Failed to fetch status",
            fetches |-> IF status # dashboard.status THEN Append(rest, Sent)
                        ELSE rest]
  /\ UNCHANGED << bpVars, statusFile, upload, calls, batchStart, sessionStore,
                  reportAnswer, snapshot, generator, posts, extractor >>

NextDashboard ==
  \/ \E updates \in DashboardUpdates : PostStatus(updates)
  \/ Mount
  \/ IntervalFires
  \/ \E k \in 1..MaxFetches : StatusGet(k)
  \/ \E k \in 1..MaxFetches : FetchStatusAnswer(k)

\* The page is opened, the timer of setInterval fires as long as the page is
\* there, and the status route answers every request it is sent.  Nothing is
\* assumed of who posts a status, or when.
SpecDashboard ==
  /\ InitStatus
  /\ [][NextDashboard]_vars
  /\ WF_vars(Mount)
  /\ WF_vars(IntervalFires)
  /\ WF_vars(\E k \in 1..MaxFetches : StatusGet(k))
  /\ WF_vars(\E k \in 1..MaxFetches : FetchStatusAnswer(k))

(***************************************************************************)
(* POST /api/upload.  A file of the form data is described by what the     *)
(* loop of lines 33-96 looks at: whether fileInfo declares it a DICOM file,*)
(* whether its type or name is one of an accepted image, and whether       *)
(* reading it (fileInfo, arrayBuffer) succeeds.  The handler goes on to    *)
(* createSession with the images that survived; the model records the call *)
(* and stops there.  The handler keeps nothing between two requests, so a  *)
(* behaviour of the model holds one request.                               *)
(***************************************************************************)
FileKinds == [declaredDicom : BOOLEAN, imageType : BOOLEAN, readable : BOOLEAN]

\* await file.arrayBuffer(): an ArrayBuffer, which has no length property
ArrayBufferOf(file) == [kind |-> "ArrayBuffer"]

\* DicomConverter.isDicomFile: length >= 132 and 'DICM' at offset 128 of a
\* Buffer; for an ArrayBuffer toString gives '[object ArrayBuffer]'
IsDicomFile(buffer) ==
  /\ buffer.kind = "Buffer"
  /\ buffer.length >= DicomPrefixLength
  /\ buffer.magic = "DICM"

\* one iteration of the loop over the files, for the file at 1-based position k
ProcessFile(file, k) ==
  IF ~file.readable
    THEN [ok |-> FALSE, file |-> k, error |-> "Processing failed"]
  ELSE IF file.declaredDicom /\ IsDicomFile(ArrayBufferOf(file))
    THEN [ok |-> TRUE, file |-> k, conversionStatus |-> "converted"]
  ELSE IF ~file.imageType
    THEN [ok |-> FALSE, file |-> k, error |-> "Unsupported file type"]
  ELSE [ok |-> TRUE, file |-> k, conversionStatus |-> "success"]

\* a bug: a file that failed is kept among the processed images
IsProcessedAlways(result) == TRUE

IsProcessed(result) == result.ok

IsFailed(result) == ~result.ok

\* a bug: the check for an empty list of processed images is missing
NoSurvivorsUnchecked(processedImages) == FALSE

\* if (processedImages.length === 0), line 100
NoSurvivors(processedImages) == Len(processedImages) = 0

\* the requests of the model: every small list of files, and one list that
\* is over the limit of files
UploadedFiles ==
  UNION {[1..n -> FileKinds] : n \in 0..MaxFiles}
    \cup {[k \in 1..(MaxFilesPerUpload + 1) |->
             [declaredDicom |-> FALSE, imageType |-> TRUE, readable |-> TRUE]]}

UploadAnswer(files, status, error, details, created, processedImages) ==
  [requested |-> TRUE, files |-> files, status |-> status, error |-> error,
   details |-> details, sessionCreated |-> created,
   processedImages |-> processedImages]

\* BatchProcessor.createSession on instance p: the session is kept by that
\* instance, in process memory, with no report yet
CreateSession(p, processedImages) ==
  [sessionStore EXCEPT ![p][SessionId] =
     [exists |-> TRUE, status |-> "processing",
      totalImages |-> Len(processedImages), finalReport |-> FALSE]]

\* POST, lines 6-136; the processing it starts in the background is
\* ProcessSessionEnds
UploadPost(files) ==
  /\ ~upload.requested
  /\ LET results == [k \in 1..Len(files) |-> ProcessFile(files[k], k)]
         processedImages == SelectSeq(results, IsProcessed)
         errors == SelectSeq(results, IsFailed)
     IN  upload' =
           IF Len(files) = 0
             THEN UploadAnswer(files, 400, "No files provided", << >>, FALSE, << >>)
           ELSE IF Len(files) > MaxFilesPerUpload
             THEN UploadAnswer(files, 400, "Maximum 200 files allowed", << >>,
                               FALSE, << >>)
           ELSE IF NoSurvivors(processedImages)
             THEN UploadAnswer(files, 400,
                               "No files could be processed successfully",
                               errors, FALSE, << >>)
           ELSE UploadAnswer(files, 0, "", errors, TRUE, processedImages)
  /\ sessionStore' =
       IF upload'.sessionCreated
         THEN CreateSession("request", upload'.processedImages)
         ELSE sessionStore
  /\ UNCHANGED << bpVars, statusFile, calls, batchStart, others, reportAnswer, snapshot,
                  generator >>

InitUpload == Init /\ options = DefaultOptions

NextUpload == \E files \in UploadedFiles : UploadPost(files)

SpecUpload == InitUpload /\ [][NextUpload]_vars

(***************************************************************************)
(* The report route, GET /api/report/[sessionId], beside the upload route. *)
(***************************************************************************)
\* BatchProcessor.getSession on instance p: undefined for an id it does not hold
GetSession(p, id) == sessionStore[p][id]

\* processImagesAsync, lines 139-152: processSession on the instance of the
\* upload request ends, with the final report or without it
ProcessSessionEnds(ok) ==
  /\ sessionStore["request"][SessionId].exists
  /\ sessionStore["request"][SessionId].status = "processing"
  /\ sessionStore' =
       [sessionStore EXCEPT !["request"][SessionId] =
          [@ EXCEPT !.status = IF ok THEN "completed" ELSE "error",
                    !.finalReport = ok]]
  /\ UNCHANGED << bpVars, statusFile, upload, calls, batchStart, others, reportAnswer,
                  snapshot, generator >>

ReportAnswer(id, status, error, hasReport) ==
  [requested |-> TRUE, sessionId |-> id, status |-> status, error |-> error,
   report |-> hasReport]

\* GET, lines 178-248, for a non-empty session id
ReportGet(id) ==
  /\ LET held == GetSession("global", id)
     IN  reportAnswer' =
           IF ~held.exists
             THEN ReportAnswer(id, 404, "Session not found", FALSE)
           ELSE IF ~held.finalReport
             THEN ReportAnswer(id, 404,
                               "Report not ready yet. Processing may still be in progress.",
                               FALSE)
           ELSE ReportAnswer(id, 200, "", TRUE)
  /\ UNCHANGED << bpVars, statusFile, upload, calls, batchStart, others, sessionStore,
                  snapshot, generator >>

NextReport ==
  \/ \E files \in UploadedFiles : UploadPost(files)
  \/ \E ok \in BOOLEAN : ProcessSessionEnds(ok)
  \/ \E id \in SessionIds : ReportGet(id)

SpecReport == InitUpload /\ [][NextReport]_vars

(***************************************************************************)
(* Two processImages calls on one BatchProcessor.  Each call has its own   *)
(* locals (calls[c]); this.processingStatus and this.options are shared.   *)
(* A call runs without interruption from one await that suspends it (the   *)
(* pending fetch, the backoff delay) to the next, so a step of the model   *)
(* is the code between two such awaits.  The options have maxRetries 1 or  *)
(* 2 and no callback.                                                      *)
(***************************************************************************)
\* lines 49-54 and 72-73 for the call with locals f, run on status st: either
\* the next batch is started and its first request sent, or the call returns
LoopHead(st, f) ==
  IF BatchLoopContinues(f.i, f.batches)
    THEN [status |-> [st EXCEPT !.currentBatch = f.i + 1],
          frame |-> [f EXCEPT !.pc = "fetch", !.attempt = 0, !.lastError = NoError]]
    ELSE LET done == [st EXCEPT !.status = "completed"]
         IN  [status |-> done,
              frame |-> [f EXCEPT !.pc = "returned",
                                  !.report = GenerateFinalReport(f.batchResults, done)]]

\* processImages called for session c with n images, up to its first await
SharedProcessImages(c, n) ==
  /\ calls[c].pc = "idle"
  /\ LET st == [totalImages |-> n, processedImages |-> 0, currentBatch |-> 0,
                totalBatches |-> CeilDiv(n, options.batchSize),
                status |-> "processing", errors |-> << >>, results |-> << >>]
         f == [NoCall EXCEPT !.images = ImageList(n),
                             !.batches = CreateBatches(ImageList(n), options.batchSize)]
         next == LoopHead(st, f)
     IN  /\ processingStatus' = next.status
         /\ calls' = [calls EXCEPT ![c] = next.frame]
  /\ UNCHANGED << options, pc, bpLocals, report, history, notifications,
                  reportsGenerated, statusFile, upload, batchStart, store >>

\* the answer to the pending request of session c arrives, and the call runs
\* on to its next await
SharedFetchResponse(c, upstream) ==
  /\ calls[c].pc = "fetch"
  /\ LET f == calls[c]
         response == ProcessBatchEndpoint(f.batches[f.i + 1], f.i, upstream)
         err == CaughtError(f.lastError,
                  [message |-> "Batch processing failed: " \o response.statusText,
                   attempt |-> f.attempt])
         thrown == ExhaustedError(err)
         next ==
           IF response.ok
             THEN LoopHead([processingStatus EXCEPT
                              !.results = Append(@, response.body),
                              !.processedImages = @ + Len(f.batches[f.i + 1])],
                           [f EXCEPT !.batchResults = Append(@, response.body),
                                     !.ended = Append(@, [batch |-> f.i,
                                                          result |-> "success"]),
                                     !.i = @ + 1])
           ELSE IF ShouldDelay(f.attempt, options.maxRetries)
             THEN [status |-> processingStatus,
                   frame |-> [f EXCEPT !.pc = "delay", !.lastError = err]]
           ELSE LoopHead([processingStatus EXCEPT
                            !.errors = Append(@, [batchIndex |-> f.i,
                                                  error |-> thrown.message,
                                                  attempt |-> thrown.attempt])],
                         [f EXCEPT !.ended = Append(@, [batch |-> f.i,
                                                        result |-> "failure"]),
                                   !.i = @ + 1])
     IN  /\ processingStatus' = next.status
         /\ calls' = [calls EXCEPT ![c] = next.frame]
  /\ UNCHANGED << options, pc, bpLocals, report, history, notifications,
                  reportsGenerated, statusFile, upload, batchStart, store >>

\* the backoff timer of session c fires and the next request is sent
SharedDelayElapsed(c) ==
  /\ calls[c].pc = "delay"
  /\ calls' = [calls EXCEPT ![c].pc = "fetch", ![c].attempt = @ + 1]
  /\ UNCHANGED << bpVars, statusFile, upload, batchStart, store >>

InitShared ==
  /\ Init
  /\ options.maxRetries \in 1..2
  /\ options.callbacks = "none"
  /\ options.retryDelay = DefaultRetryDelay

NextShared ==
  \/ \E c \in Sessions, n \in ImageCounts(options.batchSize) :
       SharedProcessImages(c, n)
  \/ \E c \in Sessions, upstream \in Upstream : SharedFetchResponse(c, upstream)
  \/ \E c \in Sessions : SharedDelayElapsed(c)

SpecShared == InitShared /\ [][NextShared]_vars

(***************************************************************************)
(* A session abandoned while its batches are processed.  The session is    *)
(* set to 'error' from outside the call, while the call is suspended at an *)
(* await (pending request or backoff delay): by a POST to the status       *)
(* endpoint, or through the status object itself, which onProgress is      *)
(* handed by reference at line 51.                                         *)
(***************************************************************************)
CallSuspended == pc \in {"fetch", "delay"}

\* POST /api/status/<sessionId> with body {status: 'error'} during the call
AbandonSession ==
  /\ CallSuspended
  /\ PostStatus([status |-> "error"])

\* status.status = 'error' set on the object that onProgress received
AbandonThroughStatus ==
  /\ CallSuspended
  /\ processingStatus.status # "error"
  /\ processingStatus' = [processingStatus EXCEPT !.status = "error"]
  /\ UNCHANGED << options, pc, bpLocals, report, history, notifications,
                  reportsGenerated, outside >>

NextAbandon == Next \/ AbandonSession \/ AbandonThroughStatus

SpecAbandon == Init /\ [][NextAbandon]_vars

(***************************************************************************)
(* processImages with any integer batch size.  createBatches is followed   *)
(* one iteration of its loop at a time, because with batchSize < 1 the     *)
(* loop does not end; the model follows it for MaxBatchesBuilt iterations. *)
(* With batchSize < 1 the calls of the model have at least one image.      *)
(***************************************************************************)
ConfiguredBatchSizes == (-1..MaxBatchSize)

\* Math.ceil(n / b) for n >= 0 and any integer b
CeilQuotient(n, b) ==
  IF b > 0 THEN CeilDiv(n, b)
  ELSE IF b < 0 THEN -(n \div (-b))
  ELSE IF n = 0 THEN NaN
  ELSE Infinity

\* processImages, lines 36-46: the status is replaced, createBatches is entered
ConfiguredProcessImages(n) ==
  /\ pc = "idle"
  /\ options.batchSize < 1 => n >= 1
  /\ images' = ImageList(n)
  /\ processingStatus' =
       [totalImages |-> n, processedImages |-> 0, currentBatch |-> 0,
        totalBatches |-> CeilQuotient(n, options.batchSize),
        status |-> "processing", errors |-> << >>, results |-> << >>]
  /\ batches' = << >>
  /\ batchStart' = 0
  /\ pc' = "createBatches"
  /\ UNCHANGED << options, batchResults, i, attempt, lastError, report, history,
                  notifications, reportsGenerated, statusFile, upload, calls,
                  store >>

\* createBatches, lines 78-81: one iteration of the loop, or its end
CreateBatchesStep ==
  /\ pc = "createBatches"
  /\ IF batchStart < Len(images)
       THEN /\ Len(batches) < MaxBatchesBuilt
            /\ batches' = Append(batches,
                                 Slice(images, batchStart,
                                       batchStart + options.batchSize))
            /\ batchStart' = batchStart + options.batchSize
            /\ UNCHANGED pc
       ELSE /\ pc' = "loop"
            /\ UNCHANGED << batches, batchStart >>
  /\ UNCHANGED << options, processingStatus, images, batchResults, i, attempt,
                  lastError, report, history, notifications, reportsGenerated,
                  statusFile, upload, calls, store >>

InitConfigured ==
  /\ options \in [batchSize : ConfiguredBatchSizes,
                  maxRetries : {1, DefaultMaxRetries},
                  retryDelay : {DefaultRetryDelay},
                  callbacks : {"none"}]
  /\ processingStatus = IdleStatus
  /\ pc = "idle"
  /\ images = << >>
  /\ batches = << >>
  /\ batchResults = << >>
  /\ i = 0
  /\ attempt = 0
  /\ lastError = NoError
  /\ report = NoReport
  /\ inFlight = {}
  /\ callLog = << >>
  /\ delays = << >>
  /\ outcome = << >>
  /\ notifications = << >>
  /\ reportsGenerated = 0
  /\ statusFile = NoFile
  /\ upload = NoUpload
  /\ calls = [c \in Sessions |-> NoCall]
  /\ batchStart = 0
  /\ sessionStore = [p \in Processors |-> [id \in SessionIds |-> NoSession]]
  /\ reportAnswer = NoAnswer
  /\ snapshot = NoSnapshot
  /\ session = NoSession
  /\ fullReports = << >>
  /\ now = 0
  /\ posts = [r \in Requests |-> NoPost]
  /\ dashboard = NoDashboard
  /\ diagnosticBatch = NoBatch
  /\ summary = NoSummary

NextConfigured ==
  \/ \E n \in 0..MaxImages : ConfiguredProcessImages(n)
  \/ CreateBatchesStep
  \/ BatchLoop
  \/ RetryLoop
  \/ \E upstream \in Upstream : FetchResponse(upstream)
  \/ DelayElapsed

SpecConfigured == InitConfigured /\ [][NextConfigured]_vars

(***************************************************************************)
(* Properties.                                                             *)
(***************************************************************************)
\* positions of the analysis calls of batch b in the call log
CallIdx(b) == {k \in 1..Len(callLog) : callLog[k].batch = b}

\* positions of the backoff delays of batch b
DelayIdx(b) == {k \in 1..Len(delays) : delays[k].batch = b}

HasOutcome(b) == \E k \in 1..Len(outcome) : outcome[k].batch = b

Running == pc \in {"loop", "attempt", "fetch", "delay"}

\* C1: batches are dispatched in increasing index order, at most one request
\* is in flight, and a call for batch b is issued only when every batch before
\* b has ended (success, or failure after its last attempt).
C1_SequentialDispatch ==
  /\ Cardinality(inFlight) <= 1
  /\ \A b \in inFlight : b = i /\ pc = "fetch"
  /\ \A k \in 1..Len(callLog) :
       /\ \A l \in 1..(k - 1) : callLog[l].batch <= callLog[k].batch
       /\ \A l \in 1..(k - 1) : callLog[l].ok # "pending"
       /\ \A b \in 0..(callLog[k].batch - 1) : HasOutcome(b)
  /\ \A k \in 1..Len(outcome) : outcome[k].batch = k - 1

\* the second batch has its request in flight after the first one failed for good
C1_Witness ==
  /\ inFlight = {1}
  /\ Len(outcome) = 1
  /\ outcome[1].result = "failure"
  /\ Cardinality(CallIdx(0)) = 3

\* C2: a batch whose calls all fail gets exactly maxRetries calls and ends in
\* failure; a batch whose call first succeeds on attempt k (1 <= k <= maxRetries)
\* gets exactly k calls, ends in success, and no call follows.
C2_RetryBound ==
  /\ \A k \in 1..Len(outcome) :
       LET b == outcome[k].batch
           n == Cardinality(CallIdx(b))
       IN  /\ {callLog[c].attempt : c \in CallIdx(b)} = 0..(n - 1)
           /\ outcome[k].result = "failure" =>
                /\ n = options.maxRetries
                /\ \A c \in CallIdx(b) : callLog[c].ok = "failed"
           /\ outcome[k].result = "success" =>
                /\ n \in 1..options.maxRetries
                /\ \E r \in 1..Len(batchResults) :
                     batchResults[r] = ProcessBatchEndpoint(batches[b + 1], b, "ok").body
                /\ \A c \in CallIdx(b) :
                     callLog[c].ok = IF callLog[c].attempt = n - 1 THEN "ok" ELSE "failed"
  /\ \A b \in 0..(Len(batches) - 1) :
       ~HasOutcome(b) =>
          /\ Cardinality(CallIdx(b)) <= options.maxRetries
          /\ \A c \in CallIdx(b) : callLog[c].ok # "ok"
          /\ (CallIdx(b) # {}
                /\ Cardinality(CallIdx(b)) = options.maxRetries
                /\ \A c \in CallIdx(b) : callLog[c].ok = "failed")
               => (b = i /\ pc = "attempt")

\* with maxRetries = 3, one batch failed after three calls and another one
\* succeeded on its second call
C2_Witness ==
  /\ options.maxRetries = 3
  /\ \E k, l \in 1..Len(outcome) :
       /\ outcome[k].result = "failure"
       /\ Cardinality(CallIdx(outcome[k].batch)) = 3
       /\ outcome[l].result = "success"
       /\ Cardinality(CallIdx(outcome[l].batch)) = 2

\* C4: for n images and batch size b >= 1, createBatches gives ceil(n/b)
\* batches, batch k holds the images [k*b, min((k+1)*b, n)), the batches
\* concatenated are the input, none is longer than b and only the last one may
\* be shorter.
C4_BatchingComplete ==
  LET n == Len(images)
      b == options.batchSize
  IN  pc # "idle" =>
        /\ Len(batches) = (IF n % b = 0 THEN n \div b ELSE n \div b + 1)
        /\ \A k \in 0..(Len(batches) - 1) :
             LET lo == k * b
                 hi == Min((k + 1) * b, n)
             IN  /\ Len(batches[k + 1]) = hi - lo
                 /\ \A j \in 1..(hi - lo) : batches[k + 1][j] = images[lo + j]
        /\ Flatten(batches) = images
        /\ \A k \in 1..Len(batches) :
             /\ Len(batches[k]) <= b
             /\ Len(batches[k]) < b => k = Len(batches)

\* 45 images cut with batch size 20 into batches of 20, 20 and 5 images
C4_Witness ==
  /\ Len(images) = 45
  /\ options.batchSize = 20
  /\ Len(batches) = 3
  /\ Len(batches[3]) = 5

\* a result or an error record exists for every batch of the call
AllBatchesRecorded(st) ==
  \A b \in 0..(Len(batches) - 1) :
    \/ \E k \in 1..Len(st.results) : st.results[k].result.batchIndex = b
    \/ \E k \in 1..Len(st.errors) : st.errors[k].batchIndex = b

\* C7: the status becomes 'completed' only from 'processing', and only when
\* every batch has a recorded outcome and no request is in flight.
C7_CompletedOnlyAfterAllBatches ==
  [][processingStatus'.status = "completed" =>
       /\ processingStatus.status \in {"processing", "completed"}
       /\ AllBatchesRecorded(processingStatus')
       /\ Len(outcome') = Len(batches')
       /\ inFlight' = {}]_vars

\* a completed call of three batches, with a failed and a succeeded batch
C7_Witness ==
  /\ processingStatus.status = "completed"
  /\ Len(batches) = 3
  /\ Len(processingStatus.errors) > 0
  /\ Len(processingStatus.results) > 0

\* C9: after the failed attempt k (0-based) with k <= maxRetries - 2 the
\* executor waits retryDelay * 2^k before the next attempt; it waits nothing
\* after the last failed attempt and nothing after a successful attempt.
C9_BackoffDelays ==
  /\ \A c \in 1..Len(callLog) :
       LET b == callLog[c].batch
           k == callLog[c].attempt
           waits == {d \in DelayIdx(b) : delays[d].attempt = k}
       IN  /\ (callLog[c].ok = "failed" /\ k <= options.maxRetries - 2) =>
                /\ Cardinality(waits) = 1
                /\ \A d \in waits : delays[d].ms = options.retryDelay * (2 ^ k)
           /\ (callLog[c].ok = "failed" /\ k > options.maxRetries - 2) => waits = {}
           /\ callLog[c].ok \in {"ok", "pending"} => waits = {}
  /\ \A d \in 1..Len(delays) :
       \E c \in CallIdx(delays[d].batch) :
         callLog[c].attempt = delays[d].attempt /\ callLog[c].ok = "failed"
  /\ pc = "delay" =>
       /\ delays[Len(delays)].batch = i
       /\ delays[Len(delays)].attempt = attempt
       /\ \A c \in CallIdx(i) : callLog[c].attempt <= attempt

\* a batch failed three times with the default delay: it waited 2000 and 4000
\* and nothing after the third failure
C9_Witness ==
  /\ options.retryDelay = 2000
  /\ options.maxRetries = 3
  /\ Len(outcome) = 1
  /\ outcome[1].result = "failure"
  /\ Len(delays) = 2
  /\ delays[1].ms = 2000
  /\ delays[2].ms = 4000

\* the delays of one batch, taken in order, grow strictly
DelaysStrictlyIncreasing ==
  \A d, e \in 1..Len(delays) :
    (delays[d].batch = delays[e].batch /\ delays[d].attempt < delays[e].attempt)
      => delays[d].ms < delays[e].ms

\* the delay before attempt k + 1 (1-based) is retryDelay * 2^(k-1), i.e.
\* retryDelay * 2^a after the failed 0-based attempt a
DelaysFollowFormula ==
  \A d \in 1..Len(delays) :
    delays[d].ms = options.retryDelay * (2 ^ delays[d].attempt)

\* C10 as stated: for every configuration, within one batch the delay before
\* attempt k + 1 is strictly greater than the delay before attempt k, following
\* baseDelay * 2^(k-1).
C10_Original == DelaysStrictlyIncreasing /\ DelaysFollowFormula

\* C10 amended: the delay follows retryDelay * 2^(k-1) in every configuration,
\* and it grows strictly in every configuration with retryDelay > 0.
C10_BackoffMonotone ==
  /\ DelaysFollowFormula
  /\ options.retryDelay > 0 => DelaysStrictlyIncreasing

\* two delays of the same batch with a positive retryDelay
C10_Witness ==
  /\ options.retryDelay > 0
  /\ Len(delays) >= 2
  /\ delays[1].batch = delays[2].batch
  /\ delays[1].ms < delays[2].ms

\* the error list of the call: the one of the report once the call returned
RunErrors == IF pc = "returned" THEN report.errors ELSE processingStatus.errors

\* C3: when a batch exhausts its retries, an error record for it is appended
\* to the error list, no exception leaves processImages, every later batch is
\* still handled, and the call ends 'completed' with a final report.
C3_BatchFailureContained ==
  \A k \in 1..Len(outcome) :
    (outcome[k].result = "failure" /\ CallIdx(outcome[k].batch) # {}) =>
      /\ pc # "thrown"
      /\ (Running \/ pc = "returned") =>
           \E e \in 1..Len(RunErrors) : RunErrors[e].batchIndex = outcome[k].batch
      /\ pc = "returned" =>
           /\ report.generated
           /\ Len(outcome) = Len(batches)

\* the position of a status in uploading, converting, processing,
\* completed | error (0: the session has no status yet)
StatusRank(file) ==
  IF file = NoFile THEN 0
  ELSE CASE file.status = "uploading" -> 1
         [] file.status = "converting" -> 2
         [] file.status = "processing" -> 3
         [] OTHER -> 4

\* C5: the status of a session only moves forward through uploading,
\* converting, processing, completed | error; no operation moves it back.
C5_StatusOnlyForward ==
  [][StatusRank(statusFile') >= StatusRank(statusFile)]_vars

\* C6: once the status of a session is 'completed' or 'error', no operation
\* changes the status or any other field of the session.
C6_TerminalAbsorbing ==
  [][(statusFile # NoFile /\ statusFile.status \in {"completed", "error"})
       => statusFile' = statusFile]_vars

\* the batches of the call whose processBatchWithRetry ended with result r
BatchesEnded(r) == {outcome[k].batch : k \in {j \in 1..Len(outcome) : outcome[j].result = r}}

\* C8: in the final report successfulBatches is the number of batches whose
\* analysis request succeeded, failedBatches the number of batches that used up
\* their retries, the two add up to totalBatches, and the error list has exactly
\* one entry per failed batch, carrying that batch's index.
C8_ReportCounts ==
  pc = "returned" =>
    /\ report.successfulBatches = Cardinality(BatchesEnded("success"))
    /\ report.failedBatches = Cardinality(BatchesEnded("failure"))
    /\ report.successfulBatches + report.failedBatches = report.totalBatches
    /\ Len(report.errors) = Cardinality(BatchesEnded("failure"))
    /\ \A b \in BatchesEnded("failure") :
         Cardinality({e \in 1..Len(report.errors) : report.errors[e].batchIndex = b}) = 1


\* the error records of the run are at hand: in the report once the call
\* returned, in processingStatus as long as reset has not cleared it
ErrorsAtHand == pc = "returned" \/ processingStatus.status # "idle"

\* the 0-based attempt of the last analysis call made for batch b
LastAttemptOf(b) ==
  CHOOSE a \in {callLog[c].attempt : c \in CallIdx(b)} :
    \A c \in CallIdx(b) : callLog[c].attempt <= a

\* every result handed to processImages is the body one analysis call answered
ResultsComeFromCalls ==
  \A r \in 1..Len(batchResults) :
    LET b == batchResults[r].result.batchIndex
    IN  /\ \E c \in CallIdx(b) : callLog[c].ok = "ok"
        /\ batchResults[r] = ProcessBatchEndpoint(batches[b + 1], b, "ok").body
        /\ \E k \in 1..Len(outcome) :
             outcome[k].batch = b /\ outcome[k].result = "success"

\* the failure reported for batch b carries the error of the last attempt made
CarriesLastError(b) ==
  /\ CallIdx(b) # {}
  /\ \A c \in CallIdx(b) : callLog[c].ok = "failed"
  /\ \E e \in 1..Len(RunErrors) :
       /\ RunErrors[e].batchIndex = b
       /\ RunErrors[e].attempt = LastAttemptOf(b)
       /\ RunErrors[e].error = "Batch processing failed: Internal Server Error"

\* C11 as stated: a result is returned only if an analysis call returned it,
\* and for every maxRetries a failure carries the error of the last attempt
\* made, never an earlier or a made-up one.
C11_Original ==
  /\ ResultsComeFromCalls
  /\ ErrorsAtHand =>
       \A k \in 1..Len(outcome) :
         outcome[k].result = "failure" => CarriesLastError(outcome[k].batch)

\* C11 amended: a result is returned only if an analysis call returned it; for
\* maxRetries >= 1 a failure carries the error of the last attempt made; for
\* maxRetries = 0 no attempt is made and the failure carries a message made up
\* at line 102.
C11_FailureCarriesLastError ==
  /\ ResultsComeFromCalls
  /\ ErrorsAtHand =>
       \A k \in 1..Len(outcome) :
         outcome[k].result = "failure" =>
           IF options.maxRetries >= 1
             THEN CarriesLastError(outcome[k].batch)
             ELSE /\ CallIdx(outcome[k].batch) = {}
                  /\ \E e \in 1..Len(RunErrors) :
                       /\ RunErrors[e].batchIndex = outcome[k].batch
                       /\ RunErrors[e].attempt = -1
                       /\ RunErrors[e].error =
                            "Failed to process batch after maxRetries attempts"

\* with maxRetries = 3 a batch failed three times and its error record is the
\* one of the third attempt, next to a batch whose call returned a result
C11_Witness ==
  /\ options.maxRetries = 3
  /\ ErrorsAtHand
  /\ Len(batchResults) > 0
  /\ \E k \in 1..Len(outcome), e \in 1..Len(RunErrors) :
       /\ outcome[k].result = "failure"
       /\ RunErrors[e].batchIndex = outcome[k].batch
       /\ RunErrors[e].attempt = 2


\* C12: a call with 0 images never has status 'converting', 'processing' or
\* 'completed', no report is generated for it, and it ends with status 'error'.
C12_EmptySessionErrors ==
  (pc # "idle" /\ Len(images) = 0) =>
    /\ processingStatus.status \notin {"converting", "processing", "completed"}
    /\ ~report.generated
    /\ (pc = "returned" /\ processingStatus.status # "idle")
         => processingStatus.status = "error"


\* the last upload had between 1 and 200 files and none of them survived
\* validation and conversion
AllFilesFailed ==
  /\ upload.requested
  /\ Len(upload.files) \in 1..MaxFilesPerUpload
  /\ \A k \in 1..Len(upload.files) : ~ProcessFile(upload.files[k], k).ok

C14_NotificationFailureHarmless ==
  ~Throws("none") =>
    /\ pc # "thrown"
    /\ pc = "returned" =>
         /\ Len(outcome) = Len(batches)
         /\ report.generated
         /\ reportsGenerated = 1


IsEndNotification(n) == n.at = "end"

\* the notifications emitted at the end of a batch (line 69), in order
EndNotes == SelectSeq(notifications, IsEndNotification)

RECURSIVE ProcessedUpTo(_)
\* the images of the batches that succeeded among the first k ended batches
ProcessedUpTo(k) ==
  IF k = 0 THEN 0
  ELSE ProcessedUpTo(k - 1)
         + (IF outcome[k].result = "success"
              THEN Len(batches[outcome[k].batch + 1]) ELSE 0)

SucceededUpTo(k) == {j \in 1..k : outcome[j].result = "success"}

C16_SuccessRateDefined ==
  pc = "returned" =>
    /\ ~report.successRate.nan
    /\ report.totalBatches = 0 => report.successRate.tenths = 0
    /\ report.totalBatches > 0 =>
         report.successRate.tenths =
           (2 * report.successfulBatches * 1000 + report.totalBatches)
             \div (2 * report.totalBatches)


\* the call returned, it had at least one batch, and every batch failed
EveryBatchFailed ==
  /\ pc = "returned"
  /\ Len(batches) >= 1
  /\ Len(outcome) = Len(batches)
  /\ \A k \in 1..Len(outcome) : outcome[k].result = "failure"

\* C17: when every batch of a call failed, generateFinalReport still returns a
\* report: no findings (the summary says that no analysis succeeded), exactly
\* the two fallback recommendations, and a success rate of 0.
C17_AllFailedReport ==
  EveryBatchFailed =>
    /\ report.generated
    /\ report.overallFindings.findings = << >>
    /\ report.overallFindings.text =
         "No successful analyses completed. Please review errors and retry processing."
    /\ report.batchSummaries = << >>
    /\ report.recommendations =
         << "Unable to generate recommendations due to processing failures.",
            "Consider re-uploading images and ensuring proper DICOM format." >>
    /\ report.successRate = [nan |-> FALSE, tenths |-> 0]
    /\ report.successfulBatches = 0
    /\ report.failedBatches = Len(batches)
    /\ report.totalBatches = Len(batches)

\* a returned call of three batches, each of which failed on all its three
\* analysis calls
C17_Witness ==
  /\ EveryBatchFailed
  /\ Len(batches) = 3
  /\ Len(callLog) = 9
  /\ report.failedBatches = 3


SucceededPositions == SelectSeq([k \in 1..Len(outcome) |-> k],
                                LAMBDA k : outcome[k].result = "success")

\* C19: the report has one summary per batch whose analysis succeeded, each
\* carrying the index and the image count of the batch it summarises, in
\* batch-index order, also after a failed batch and for a short last batch.
C19_SummariesMatchBatches ==
  pc = "returned" =>
    /\ Len(report.batchSummaries) = Len(SucceededPositions)
    /\ \A k \in 1..Len(report.batchSummaries) :
         LET b == outcome[SucceededPositions[k]].batch
         IN  /\ report.batchSummaries[k].batchNumber = b + 1
             /\ report.batchSummaries[k].imageCount = Len(batches[b + 1])
    /\ \A k, l \in 1..Len(report.batchSummaries) :
         k < l => report.batchSummaries[k].batchNumber
                    < report.batchSummaries[l].batchNumber


\* the batches of session c whose processBatchWithRetry ended with result r
EndedAs(c, r) ==
  {calls[c].ended[k].batch :
     k \in {j \in 1..Len(calls[c].ended) : calls[c].ended[j].result = r}}

RECURSIVE ImagesIn(_, _)
\* the number of images of the batches bs whose 0-based index is in the set
ImagesIn(bs, indices) ==
  IF indices = {} THEN 0
  ELSE LET b == CHOOSE x \in indices : TRUE
       IN  Len(bs[b + 1]) + ImagesIn(bs, indices \ {b})

\* C20: two sessions processed at the same time do not interact, also on one
\* shared processor: the report of each session shows the image and batch
\* counts, the processed images and the errors of that session only (stated
\* for two sessions that both have images).
C20_SessionsIsolated ==
  \A c \in Sessions :
    (calls[c].pc = "returned" /\ \A d \in Sessions : Len(calls[d].images) >= 1) =>
      LET f == calls[c]
      IN  /\ f.report.totalImages = Len(f.images)
          /\ f.report.totalBatches = Len(f.batches)
          /\ f.report.processedImages = ImagesIn(f.batches, EndedAs(c, "success"))
          /\ f.report.failedBatches = Cardinality(EndedAs(c, "failure"))
          /\ {f.report.errors[e].batchIndex : e \in 1..Len(f.report.errors)}
               = EndedAs(c, "failure")
          /\ Len(f.report.errors) = Cardinality(EndedAs(c, "failure"))


\* the session has been set to 'error', at the status endpoint or in the
\* status object of the processor
Abandoned ==
  \/ processingStatus.status = "error"
  \/ statusFile # NoFile /\ statusFile.status = "error"

\* C21: once a session is set to 'error' while its batches are processed, the
\* first request of a further batch is never sent; only the batch that was in
\* flight goes on with its attempts.
C21_NoDispatchAfterAbandon ==
  [][(Running /\ Abandoned) =>
       ~(/\ Len(callLog') > Len(callLog)
         /\ callLog'[Len(callLog')].attempt = 0)]_vars


\* C22: every analysis request is bounded by a timeout and a timed-out request
\* is handled as a failed attempt, so no attempt waits forever: a call that
\* waits for the answer to a request eventually goes on.
C22_NoAttemptWaitsForever == (pc = "fetch") ~> (pc # "fetch")


\* the call waited for a timer after b batches had ended and before the
\* analysis call at position c of the call log was issued
PausedBefore(b, c) ==
  \E d \in 1..Len(delays) :
    /\ delays[d].ended = b
    /\ delays[d].calls < c

\* C23: between the end of batch b - 1 and the first request of batch b the
\* call waits the inter-batch pause (default 2000); it waits no such pause
\* before the first batch and none after the last one.
C23_InterBatchPause ==
  /\ \A c \in 1..Len(callLog) :
       (callLog[c].attempt = 0 /\ callLog[c].batch > 0)
         => PausedBefore(callLog[c].batch, c)
  /\ \A d \in 1..Len(delays) :
       /\ ~(delays[d].ended = 0 /\ delays[d].calls = 0)
       /\ delays[d].ended < Len(batches)


\* C24: a batch size below 1 is rejected at the start of the call: no batch is
\* created, no request is sent, createBatches is not left running, and the
\* status is 'error'.
C24_BadBatchSizeRejected ==
  (options.batchSize < 1 /\ pc # "idle") =>
    /\ batches = << >>
    /\ callLog = << >>
    /\ pc # "createBatches"
    /\ processingStatus.status = "error"


\* the session with this id, on whichever instance holds it
SessionOf(id) ==
  IF \E p \in Processors : sessionStore[p][id].exists
    THEN sessionStore[CHOOSE p \in Processors : sessionStore[p][id].exists][id]
    ELSE NoSession

\* C25: every answer of the report endpoint is the report exactly when the
\* session of the requested id is 'completed', "not ready" when the session
\* exists and is not completed, and "not found" when no session has the id.
C25_ReportIffCompleted ==
  [][reportAnswer' # reportAnswer =>
       LET a == reportAnswer'
           held == SessionOf(a.sessionId)
       IN  IF ~held.exists
             THEN a.status = 404 /\ a.error = "Session not found"
           ELSE IF held.status = "completed"
             THEN a.status = 200 /\ a.report
           ELSE /\ a.status = 404
                /\ a.error = "Report not ready yet. Processing may still be in progress."]_vars


\* C26: the state of a session is stored after each of its transitions: when
\* the process restarts, the status retrieved by session id is the one the
\* call had reached (status, processed images, recorded errors), and the
\* stored status holds the final report once it was generated.
C26_StateSurvivesRestart ==
  [][Restart =>
       LET retrieved == GetStatusAnswer(statusFile')
       IN  /\ retrieved.code = 200
           /\ retrieved.body.status = processingStatus.status
           /\ retrieved.body.processedImages = processingStatus.processedImages
           /\ Len(retrieved.body.errors) = Len(processingStatus.errors)
           /\ report.generated => "finalReport" \in DOMAIN retrieved.body]_vars


\* C27: a status snapshot is a point-in-time copy: the value getStatus
\* returned reads later as it read when it was returned (counters, status,
\* errors, results), and so does every value that was passed to onProgress.
C27_SnapshotFrozen ==
  /\ snapshot.taken =>
       LET read == SnapshotRead(snapshot)
       IN  /\ OwnProperties(read) = snapshot.own
           /\ read.errors = snapshot.errorsThen
           /\ read.results = snapshot.resultsThen
  /\ \A k \in 1..Len(notifications) :
       LET read == ProgressArgumentRead
       IN  /\ read.currentBatch = notifications[k].currentBatch
           /\ read.processedImages = notifications[k].processedImages
           /\ read.errors = notifications[k].errors
           /\ read.results = notifications[k].results


\* the positions, in the upload, of the entries of a list of per-file records
FilePositions(records) == [k \in 1..Len(records) |-> records[k].file]

StrictlyIncreasing(positions) ==
  \A j, k \in 1..Len(positions) : j < k => positions[j] < positions[k]

WithoutTimestamp(r) == [f \in DOMAIN r \ {"generatedAt"} |-> r[f]]

EarlierCalls(b, c) == {x \in CallIdx(b) : x < c}

\* the backoff delays of batch b recorded before position d
EarlierDelays(b, d) == {x \in DelayIdx(b) : x < d}

\* C30: the retry state belongs to one batch: the attempt number of a call is
\* the number of earlier calls of the same batch (so every batch starts at
\* attempt 0), a batch fails only after maxRetries calls of its own, and the
\* k-th delay of a batch is retryDelay * 2^(k-1), the first one retryDelay,
\* whatever the batches before it used.
C30_RetryStateLocal ==
  \A b \in 0..(Len(batches) - 1) :
    /\ \A c \in CallIdx(b) :
         callLog[c].attempt = Cardinality(EarlierCalls(b, c))
    /\ Cardinality(CallIdx(b)) <= options.maxRetries
    /\ (\E k \in 1..Len(outcome) :
          outcome[k].batch = b /\ outcome[k].result = "failure")
         => Cardinality(CallIdx(b)) = options.maxRetries
    /\ \A d \in DelayIdx(b) :
         delays[d].ms
           = BackoffDelay(options.retryDelay, Cardinality(EarlierDelays(b, d)))

\* batch 0 used all three attempts and failed, batch 1 succeeded at once, and
\* batch 2 starts over: attempt 0, then the base delay before attempt 1
C30_Witness ==
  /\ options.maxRetries = 3
  /\ options.retryDelay = DefaultRetryDelay
  /\ Len(outcome) = 2
  /\ outcome[1].result = "failure"
  /\ outcome[2].result = "success"
  /\ Cardinality(CallIdx(0)) = 3
  /\ Cardinality(CallIdx(1)) = 1
  /\ Cardinality(CallIdx(2)) = 2
  /\ \E d \in DelayIdx(2) : delays[d].ms = DefaultRetryDelay /\ delays[d].attempt = 0


\* the recorded errors of batch b
ErrorsOf(b) ==
  {e \in 1..Len(processingStatus.errors) : processingStatus.errors[e].batchIndex = b}

\* C31: every batch processImages has handled is recorded once, either among
\* the results or among the errors: a batch whose result was recorded has no
\* error, a batch that failed has one error and no result, and the two lists
\* together are as long as the number of batches handled, whatever the
\* analysis calls answer and whatever the callbacks do.
C31_ExactlyOneRecord ==
  processingStatus.status # "idle" =>
    /\ Len(processingStatus.results) + Len(processingStatus.errors)
         = Len(outcome)
    /\ \A k \in 1..Len(outcome) :
         Cardinality(ErrorsOf(outcome[k].batch))
           = (IF outcome[k].result = "success" THEN 0 ELSE 1)


\* C32: when two status POSTs of one session that set different fields have
\* both been answered, the stored status has the value each of them set.
C32_NoLostUpdate ==
  (/\ \A r \in Requests : posts[r].pc = "answered"
   /\ \A r \in Requests : DOMAIN posts[r].updates # {}
   /\ DOMAIN posts[1].updates \cap DOMAIN posts[2].updates = {}) =>
    \A r \in Requests :
      \A f \in DOMAIN posts[r].updates : statusFile[f] = posts[r].updates[f]


\* C33: while a processImages call runs and after it ended, processedImages is
\* the number of images of the batches that succeeded so far and lies in
\* 0..totalImages, currentBatch lies in 0..totalBatches, and once the status is
\* 'completed' processedImages = totalImages exactly when no batch failed.
C33_CountersConsistent ==
  processingStatus.status # "idle" =>
    /\ processingStatus.processedImages = ProcessedUpTo(Len(outcome))
    /\ processingStatus.processedImages \in 0..processingStatus.totalImages
    /\ processingStatus.currentBatch \in 0..processingStatus.totalBatches
    /\ processingStatus.status = "completed" =>
         (processingStatus.processedImages = processingStatus.totalImages
            <=> \A k \in 1..Len(outcome) : outcome[k].result = "success")

\* a completed call of three images in two batches: the first batch failed, the
\* second, the shorter one, succeeded
C33_Witness ==
  /\ processingStatus.status = "completed"
  /\ processingStatus.totalImages = 3
  /\ processingStatus.totalBatches = 2
  /\ processingStatus.processedImages = 1
  /\ processingStatus.currentBatch = 2
  /\ outcome = << [batch |-> 0, result |-> "failure"],
                  [batch |-> 1, result |-> "success"] >>


\* C34: when every analysis call is answered, a processImages call on a
\* processor with batch size >= 1 ends with status 'completed', and it issues
\* at most ceil(n / batchSize) * maxRetries analysis calls.
C34_TerminatesCompleted ==
  /\ [](Len(callLog)
          <= CeilDiv(Len(images), options.batchSize) * options.maxRetries)
  /\ Running ~> (pc = "returned" /\ processingStatus.status = "completed")



\* line k of the text is inside a findings section: a line with the word
\* 'findings' or 'observations' comes before it, with no blank line between
InFindingsSection(text, k) ==
  \E m \in 1..(k - 1) :
    /\ text[m].findingsWord
    /\ \A j \in (m + 1)..(k - 1) : text[j].lead # "blank"

\* the lines of the text that are bulleted or numbered, are not marker lines
\* themselves, and are inside a findings section
SectionFindings(text) ==
  LET isFinding(k) == /\ text[k].lead \in {"bullet", "numbered"}
                      /\ ~text[k].findingsWord
                      /\ InFindingsSection(text, k)
      F[k \in 0..Len(text)] ==
        IF k = 0 THEN << >>
        ELSE IF isFinding(k) THEN Append(F[k - 1], StripLead(text[k]))
        ELSE F[k - 1]
  IN  F[Len(text)]

\* C35: the findings extractFindings captures are the bulleted or numbered
\* lines inside a findings section, in order, and no other line: when no line
\* of the text is inside a section the result is the fallback alone.
C35_OnlySectionFindings ==
  (summary.called /\ ~summary.threw) =>
    LET expected == SectionFindings(diagnosticBatch.aiResponse)
    IN  IF expected = << >>
          THEN summary.findings = << [preview |-> diagnosticBatch.aiResponse] >>
          ELSE summary.findings = expected

\* C36: generateBatchSummary returns for every batch, with or without a
\* response text, and when no finding is captured its findings are the single
\* fallback made of the beginning of the text.
C36_ExtractionNeverThrows ==
  summary.called =>
    /\ ~summary.threw
    /\ Len(summary.findings) >= 1
    /\ (\A k \in 1..Len(diagnosticBatch.aiResponse) :
          ~(\/ diagnosticBatch.aiResponse[k].lead = "numbered"
            \/ diagnosticBatch.aiResponse[k].lead = "bullet"))
         => summary.findings = << [preview |-> diagnosticBatch.aiResponse] >>


\* the priority order of the severities: normal < mild < moderate < severe <
\* critical
SeverityRank(severity) ==
  CASE severity = "normal" -> 0
    [] severity = "mild" -> 1
    [] severity = "moderate" -> 2
    [] severity = "severe" -> 3
    [] severity = "critical" -> 4

\* the severity classes of which the text contains a keyword
ClassesIn(text) == UNION {text[k].keywords : k \in 1..Len(text)}

\* the severities of the other batches a session may have
OtherSeverities ==
  UNION {[1..n -> SeverityClasses \cup {"normal"}] : n \in 0..MaxOtherBatches}

\* C37: the severity of a text is the highest class of which it contains a
\* keyword, 'normal' when it contains none, and the overall severity of a
\* session with this batch and any other batches is the highest of the
\* severities of its batches.
C37_HighestSeverityWins ==
  (summary.called /\ ~summary.threw) =>
    LET classes == ClassesIn(diagnosticBatch.aiResponse)
        severity == summary.value.severity
    IN  /\ classes = {} => severity = "normal"
        /\ classes # {} =>
             /\ severity \in classes
             /\ \A c \in classes : SeverityRank(c) <= SeverityRank(severity)
        /\ \A rest \in OtherSeverities :
             \A at \in 0..Len(rest) :
               LET severities == SubSeq(rest, 1, at) \o << severity >>
                                   \o SubSeq(rest, at + 1, Len(rest))
                   highest == GetHighestSeverity(severities)
               IN  /\ \E k \in 1..Len(severities) : severities[k] = highest
                   /\ \A k \in 1..Len(severities) :
                        SeverityRank(severities[k]) <= SeverityRank(highest)

\* a text of two lines, the first with keywords of mild and moderate, the
\* second with one of severe: it is classified severe
C37_Witness ==
  /\ summary.called
  /\ ~summary.threw
  /\ Len(diagnosticBatch.aiResponse) = 2
  /\ diagnosticBatch.aiResponse[1].keywords = {"mild", "moderate"}
  /\ diagnosticBatch.aiResponse[2].keywords = {"severe"}
  /\ summary.value.severity = "severe"

\* the recommendations extracted from the batches of a session, in batch order
ExtractedFrom(bs) ==
  Flatten([k \in 1..Len(bs) |-> ExtractRecommendations(bs[k].aiResponse)])

\* the position of the first occurrence of a value in a list
FirstSeen(list, value) ==
  CHOOSE p \in 1..Len(list) :
    list[p] = value /\ \A q \in 1..(p - 1) : list[q] # value

\* the number of occurrences of a value in a list
Occurrences(list, value) ==
  Cardinality({p \in 1..Len(list) : list[p] = value})

\* the list ends with the three general recommendations, and before them are
\* the extracted recommendations and nothing else, in first-seen order
C38_Shape(list, extracted) ==
  LET own == Len(list) - Len(GeneralRecommendations)
  IN  /\ own >= 0
      /\ SubSeq(list, own + 1, Len(list)) = GeneralRecommendations
      /\ {list[p] : p \in 1..own} = {extracted[j] : j \in 1..Len(extracted)}
      /\ \A p, q \in 1..own :
           p < q => FirstSeen(extracted, list[p]) < FirstSeen(extracted, list[q])

\* C38: the consolidated recommendation list of a report holds each
\* recommendation extracted from the batches exactly once, in first-seen order
\* over the batches in batch order, and after them the three general
\* recommendations, whatever the batches are
C38_ConsolidatedRecommendations ==
  \A k \in 1..Len(fullReports) :
    LET list == fullReports[k].report.recommendations
        extracted == ExtractedFrom(fullReports[k].received.batches)
    IN  /\ C38_Shape(list, extracted)
        /\ \A j \in 1..Len(extracted) : Occurrences(list, extracted[j]) = 1

\* C39: every status record the status POST has stored with status
\* 'completed' has progress 100 and an endTime, and the progress of every
\* stored record is a number from 0 to 100
C39_StoredProgressValid ==
  statusFile # NoFile =>
    /\ statusFile.status = "completed" =>
         /\ statusFile.progress = Num(100)
         /\ "endTime" \in DOMAIN statusFile
    /\ statusFile.progress.kind = "number"
    /\ statusFile.progress.value \in 0..100

\* C40: if the stored status of the session becomes 'completed' and stays
\* so, the dashboard page comes to show the status 'completed'
C40_DashboardShowsCompleted ==
  <>[](statusFile # NoFile /\ statusFile.status = "completed")
    => <>(dashboard.mounted /\ dashboard.status = "completed")

====
